---- MODULE Spec2Model ----
(***************************************************************************)
(* A model of the objective-computation layer of CONTRAfold-SE:            *)
(*   - ComputationEngine::DoComputation and the per-example commands it    *)
(*     dispatches to (src/src/ComputationEngine.ipp),                      *)
(*   - the caching members of ComputationWrapper                           *)
(*     (src/src/ComputationWrapper.hpp).                                   *)
(*                                                                         *)
(* Numbers.  RealT values are modelled by integers.  Scores and function   *)
(* values are counted in units of 5e-7, so that the tolerance 1e-6 of the  *)
(* "avoid precision problems" blocks is the integer 2 (PRECISION_TOL).     *)
(* Division by log_base is integer division (the code's division rounds    *)
(* too); exp, lgamma and the digamma function Psi are rounded to the       *)
(* nearest integer on the few arguments the model uses.                    *)
(*                                                                         *)
(* The inference engine is an external collaborator.  In Spec and          *)
(* SpecBatch what it answers during one command is a nondeterministic      *)
(* input of that command (the record e), so that an engine that breaks     *)
(* its contract (conditional score above unconditional score, sentinel     *)
(* scores) is covered.                                                     *)
(***************************************************************************)
EXTENDS Integers, Sequences, FiniteSets, TLC

VARIABLES
    cfg,        \* compile-time configuration and run-time options of the build
    status,     \* "ready", "returned" after a call, "fatal" once the process is terminated
    call,       \* what the last DoComputation call did (its outcome record)
    args,       \* the arguments of the last call
    result,     \* std::vector<RealT> &result after the last call
    files,      \* parameter dumps written by parameter_manager.WriteToFile
    \* one batch of the fan-out/reduce collaborator (SpecBatch)
    batch,      \* the command, the shared parameters and the units of the batch
    pending,    \* units of the batch not processed yet
    acc,        \* the elementwise sum of the results so far
    own,        \* per example, the value of its own position when it is computed alone
    \* ComputationWrapper (SpecW): the members of ComputationWrapper.hpp
    cached_toggle_use_nonsmooth,
    cached_toggle_use_loss,
    cached_units,
    cached_w,
    cached_function,
    cached_gradient,
    cached_function_gammamle,
    cached_gradient_gammamle,
    cached_key_gammamle,    \* the key of the evidence slot
    query,      \* the last oracle query: its kind, its arguments, hit or miss
    answer,     \* what the last oracle query returned
    work,       \* dispatcher batches and inference passes the last query ran
    \* the inner optimizers (SpecOpt) and the output file names (SpecNames)
    opt,        \* the inner optimizer: its kind, its iterate x0, its iteration
    naming      \* one MakeOutputFilename call: its arguments and its value

enginevars == <<status, call, args, result, files>>

batchvars == <<batch, pending, acc, own>>

structuralslot ==
    <<cached_toggle_use_nonsmooth, cached_toggle_use_loss, cached_units, cached_w,
      cached_function, cached_gradient>>

gammamleslot ==
    <<cached_function_gammamle, cached_gradient_gammamle, cached_key_gammamle>>

wrappervars == <<structuralslot, gammamleslot, query, answer, work>>

auxvars == <<opt, naming>>

vars == <<cfg, enginevars, batchvars, wrappervars, auxvars>>

-----------------------------------------------------------------------------
(* Bounds of the model *)

\* number of training examples (descriptions.size())
NumExamples == 3

\* number of structural feature weights among the logical parameters
NumStructParams == 1

\* largest example weight
MaxWeight == 2

-----------------------------------------------------------------------------
(* Program constants *)

\* the sentinel score "no valid structure"
NEG_INF == -1000

\* 1e-6, in units of 5e-7
PRECISION_TOL == 2

\* size of the nucleotide alphabet looped over by the evidence cells; the
\* model covers an alphabet of this size
M == 1

\* options.GetIntValue("num_data_sources"); the model covers this many
num_data_sources == 1

-----------------------------------------------------------------------------
(* Vectors (std::vector<RealT> with the operators of Utilities) *)

Min2(a, b) == IF a <= b THEN a ELSE b

ZeroVec(n) == [i \in 1..n |-> 0]

OnesVec(n) == [i \in 1..n |-> 1]

VecSub(a, b) == [i \in 1..Min2(Len(a), Len(b)) |-> a[i] - b[i]]

VecAdd(a, b) == [i \in 1..Min2(Len(a), Len(b)) |-> a[i] + b[i]]

VecScale(a, k) == [i \in 1..Len(a) |-> a[i] * k]

\* std::fill(result.begin(), result.end(), RealT(0))
ZeroFill_Keep(a) == a

ZeroFill_BackOnly(a) == [a EXCEPT ![Len(a)] = 0]

ZeroFill(a) == [i \in 1..Len(a) |-> 0]

\* result.back()
Back(a) == a[Len(a)]

\* result.back() /= x
DivBack(a, x) == [a EXCEPT ![Len(a)] = a[Len(a)] \div x]

RECURSIVE DotProduct(_, _)
DotProduct(a, b) ==
    IF Len(a) = 0 \/ Len(b) = 0 THEN 0
    ELSE Head(a) * Head(b) + DotProduct(Tail(a), Tail(b))

-----------------------------------------------------------------------------
(* The corpus, the options and the parameter manager *)

Examples == 1..NumExamples

DataSources == 0..(num_data_sources - 1)

\* std::vector<FileDescription> descriptions: immutable after load.  Example
\* 1 has a ground-truth structure and evidence, example 2 evidence only,
\* example 3 a structure only, and so on in turn; weights are positive.  The
\* input files are taken from two directories: every third example is the
\* file of directory "test" that has the base name of the example two before.
descriptions ==
    [i \in Examples |->
        [input_filename |-> IF i % 3 = 0 THEN [dir |-> "test", base |-> i - 2]
                                         ELSE [dir |-> "train", base |-> i],
         HasStruct      |-> (i % 2 = 1),
         HasEvidence    |-> IF i % 3 = 0 THEN {} ELSE DataSources,
         weight         |-> (i % MaxWeight) + 1]]

\* GetBaseName(descriptions[index].input_filename)
GetBaseName(filename) == filename.base

\* The evidence cells (data source, nucleotide, pairing state) of the loops
\* of ComputeFunctionAndGradientSE
Cells == {<<ds, i, j>> : ds \in DataSources, i \in 0..(M - 1), j \in 0..1}

NumCells == num_data_sources * M * 2

\* parameter_manager.GetNumLogicalParameters()
NumLogicalParameters == NumStructParams + 2 * NumCells

\* parameter_manager.GetLogicalIndex(inference_engine.GetLogScoreEvidence(p, i, j, ds)),
\* as a position of a 1-based sequence: p = 0 is the shape (k), p = 1 the
\* scale (theta) of the cell; the structural weights come first.
EvidenceIndex(p, i, j, ds) ==
    NumStructParams + (((ds * M) + i) * 2 + j) * 2 + p + 1

\* The builds and option settings covered: the default build, and each
\* deviation from it that the commands test.
DefaultConfig ==
    [NONCONVEX_MULTIPLIER |-> 0,
     STOCHASTIC_GRADIENT  |-> FALSE,
     HAMMING_LOSS         |-> FALSE,
     SMOOTH_MAX_MARGIN    |-> FALSE,
     viterbi_parsing      |-> FALSE]

Configs ==
    { DefaultConfig,
      [DefaultConfig EXCEPT !.NONCONVEX_MULTIPLIER = 1],
      [DefaultConfig EXCEPT !.NONCONVEX_MULTIPLIER = 1, !.STOCHASTIC_GRADIENT = TRUE],
      [DefaultConfig EXCEPT !.HAMMING_LOSS = TRUE],
      [DefaultConfig EXCEPT !.viterbi_parsing = TRUE],
      [DefaultConfig EXCEPT !.viterbi_parsing = TRUE, !.SMOOTH_MAX_MARGIN = TRUE] }

-----------------------------------------------------------------------------
(* Outcomes of a command *)

NoFile == [name |-> <<>>, content |-> <<>>]

\* The command returned to DoComputation's caller with `r` in result.
\*   passes:    inference passes run (Inside, Outside, Viterbi, ESS, posterior)
\*   loads:     whether inference_engine.LoadSequence was called
\*   events:    messages and file operations, in program order
\*   scores:    the <<unconditional, conditional>> score pairs compared
\*   objective: <<v>> when the precision block was reached with result.back() = v
\*   conditional: <<kind>> of the conditional pass of an EM M-step command,
\*              "constrained" after UseConstraints, "ESS" without constraints
Returned(path, r, passes, events) ==
    [outcome |-> "returned", path |-> path, result |-> r, passes |-> passes,
     loads |-> TRUE, events |-> events, file |-> NoFile,
     scores |-> <<>>, objective |-> <<>>, conditional |-> <<>>]

\* the process was terminated inside the command: nothing is returned
Fatal(kind, passes, loads, events, file) ==
    [outcome |-> kind, path |-> "fatal", result |-> <<>>, passes |-> passes,
     loads |-> loads, events |-> events, file |-> file,
     scores |-> <<>>, objective |-> <<>>, conditional |-> <<>>]

Scored(o, pairs) == [o EXCEPT !.scores = pairs]

Tested(o, v) == [o EXCEPT !.objective = <<v>>]

\* Error(...): prints the message and terminates the process
Error(msg, passes, loads) ==
    Fatal("error", passes, loads, <<msg>>, NoFile)

\* a failed assertion: fatal
AssertionFailed(msg, passes, loads) ==
    Fatal("assert", passes, loads, <<msg>>, NoFile)

\* Assert(conditional_score <= unconditional_score, ...): the test
ScoresConsistent_NoCheck(conditional_score, unconditional_score) == TRUE

ScoresConsistent(conditional_score, unconditional_score) ==
    conditional_score <= unconditional_score

\* "check for bad parse": conditional_score < RealT(NEG_INF/2)
IsBadParse_Inclusive(conditional_score) == conditional_score <= (NEG_INF \div 2)

IsBadParse(conditional_score) == conditional_score < (NEG_INF \div 2)

\* std::cerr << "Unexpected bad parse for file: " << input_filename
BadParseMsg(index) ==
    <<"Unexpected bad parse for file", descriptions[index].input_filename>>

\* std::cerr << "Encountered negative function value for " << input_filename
NegativeMsg(index) ==
    <<"Encountered negative function value for", descriptions[index].input_filename>>

\* SPrintF("neg_params.%s", GetBaseName(input_filename)), holding w
NegParamsFile_NoBaseName(index, w) ==
    [name |-> <<"neg_params">>, content |-> w]

NegParamsFile(index, w) ==
    [name    |-> <<"neg_params", GetBaseName(descriptions[index].input_filename)>>,
     content |-> w]

\* result *= RealT(weight); result.back() /= shared.log_base;
ScaleResult(r, index, shared) ==
    DivBack(VecScale(r, descriptions[index].weight), shared.log_base)

\* the block "avoid precision problems" and the final scaling of
\* ComputeFunctionAndGradient and ComputeMStepFunctionAndGradient
AvoidPrecisionProblems_NoClamp(r, index, shared, passes) ==
    Tested(Returned("normal", ScaleResult(r, index, shared), passes, <<>>), Back(r))

AvoidPrecisionProblems(r, index, shared, passes) ==
    Tested(IF Back(r) < 0
           THEN IF Back(r) < -PRECISION_TOL
                THEN Fatal("exit", passes, TRUE,
                           <<NegativeMsg(index), "WriteToFile", "exit">>,
                           NegParamsFile(index, shared.w))
                ELSE Returned("clamp", ZeroFill(r), passes, <<>>)
           ELSE Returned("normal", ScaleResult(r, index, shared), passes, <<>>),
           Back(r))

\* inference passes of one unconditional or conditional block
BlockPasses(shared, need_gradient) ==
    IF shared.use_nonsmooth THEN 1 ELSE IF need_gradient THEN 2 ELSE 1

-----------------------------------------------------------------------------
(* ComputationEngine::ComputeFunctionAndGradient *)

\* The block under NONCONVEX_MULTIPLIER != 0 and STOCHASTIC_GRADIENT.  Its
\* "conditional counts" pass stores into unconditional_score and
\* unconditional_counts again, so what is left of the two passes is the
\* second one's answer (e.u3, e.ucounts3); conditional_score and
\* conditional_counts keep the values of the first conditional pass.
NonconvexBlock(r, index, shared, e, need_gradient, passes) ==
    LET unconditional_score == e.u3
        unconditional_counts == e.ucounts3
        passes2 == passes + 2 * BlockPasses(shared, need_gradient)
        result2 == Append(IF need_gradient
                          THEN VecSub(unconditional_counts, e.ccounts)
                          ELSE <<>>,
                          unconditional_score - e.c)
    IN  Scored(
          IF ~ScoresConsistent(e.c, unconditional_score)
          THEN AssertionFailed("Conditional score cannot exceed unconditional score.", passes2, TRUE)
          ELSE IF IsBadParse(e.c)
          THEN Returned("badparse", ZeroFill(r), passes2, <<BadParseMsg(index)>>)
          ELSE AvoidPrecisionProblems(
                   VecSub(r, VecScale(result2, cfg.NONCONVEX_MULTIPLIER)),
                   index, shared, passes2),
          <<(<<e.u, e.c>>), (<<unconditional_score, e.c>>)>>)

ComputeFunctionAndGradient(index, shared, e, need_gradient) ==
    LET unconditional_score == e.u
        conditional_score == e.c
        passes == 2 * BlockPasses(shared, need_gradient)
        result1 == Append(IF need_gradient
                          THEN VecSub(e.ucounts, e.ccounts)
                          ELSE <<>>,
                          unconditional_score - conditional_score)
    IN  IF ~ScoresConsistent(conditional_score, unconditional_score)
        THEN Scored(AssertionFailed("Conditional score cannot exceed unconditional score.", passes, TRUE),
                    <<(<<unconditional_score, conditional_score>>)>>)
        ELSE IF IsBadParse(conditional_score)
        THEN Scored(Returned("badparse", ZeroFill(result1), passes, <<BadParseMsg(index)>>),
                    <<(<<unconditional_score, conditional_score>>)>>)
        ELSE IF cfg.NONCONVEX_MULTIPLIER # 0 /\ cfg.STOCHASTIC_GRADIENT
        THEN NonconvexBlock(result1, index, shared, e, need_gradient, passes)
        ELSE Scored(AvoidPrecisionProblems(result1, index, shared, passes),
                    <<(<<unconditional_score, conditional_score>>)>>)

-----------------------------------------------------------------------------
(* ComputationEngine::ComputeMStepFunctionAndGradient *)

ConditionalPassMStep_AlwaysClamped(sstruct, shared, e, need_gradient) ==
    [kind |-> "constrained", score |-> e.c,
     counts |-> IF need_gradient THEN e.ccounts ELSE <<>>,
     passes |-> BlockPasses(shared, need_gradient)]

\* "conditional inference - need to use ESS (if you don't know the labels)":
\* without a known structure the expected sufficient statistics are computed,
\* whether or not the gradient is needed, and no constraints are used; with
\* one the engine is clamped to it by UseConstraints
ConditionalPassMStep(sstruct, shared, e, need_gradient) ==
    IF ~sstruct.HasStruct
    THEN [kind |-> "ESS", score |-> DotProduct(shared.w, e.ccounts),
          counts |-> e.ccounts, passes |-> 2]
    ELSE [kind |-> "constrained", score |-> e.c,
          counts |-> IF need_gradient THEN e.ccounts ELSE <<>>,
          passes |-> BlockPasses(shared, need_gradient)]

Conditional(o, kind) == [o EXCEPT !.conditional = <<kind>>]

ComputeMStepFunctionAndGradient_Viterbi(index, shared, e, need_gradient) ==
    Conditional(
        Scored(AvoidPrecisionProblems(
                   Append(IF need_gradient THEN VecSub(e.ucounts, e.ccounts) ELSE <<>>,
                          e.u - e.c),
                   index, shared, 2),
               <<(<<e.u, e.c>>)>>),
        "constrained")

ComputeMStepFunctionAndGradient(index, shared, e, need_gradient) ==
    LET sstruct == descriptions[index]
        w == shared.w
    IN  IF cfg.HAMMING_LOSS
        THEN Error("HAMMING_LOSS not implemented within EM training", 0, TRUE)
        ELSE IF shared.use_nonsmooth
        THEN Error("Viterbi training not supported within EM training", 0, TRUE)
        ELSE
        LET unconditional_score == e.u
            pass == ConditionalPassMStep(sstruct, shared, e, need_gradient)
            conditional_counts == pass.counts
            conditional_score == pass.score
            passes == BlockPasses(shared, need_gradient) + pass.passes
            result1 == Append(IF need_gradient
                              THEN VecSub(e.ucounts, conditional_counts)
                              ELSE <<>>,
                              unconditional_score - conditional_score)
        IN  Conditional(Scored(
              IF ~ScoresConsistent(conditional_score, unconditional_score)
              THEN AssertionFailed("Conditional score cannot exceed unconditional score.", passes, TRUE)
              ELSE IF IsBadParse(conditional_score)
              THEN Returned("badparse", ZeroFill(result1), passes, <<BadParseMsg(index)>>)
              ELSE IF cfg.NONCONVEX_MULTIPLIER # 0
              THEN Error("Nonconvex training not supported within EM training", passes, TRUE)
              ELSE AvoidPrecisionProblems(result1, index, shared, passes),
              <<(<<unconditional_score, conditional_score>>)>>), pass.kind)

-----------------------------------------------------------------------------
(* ComputationEngine::ComputeFunctionAndGradientSE *)

\* exp, lgamma and Psi (digamma), rounded to the nearest integer.  The
\* evidence parameters the model loads are -1, 0 and 1, so the shapes and
\* scales are exp(-1), exp(0), exp(1), which round to 0, 1 and 3.
Exp(x) == IF x <= -1 THEN 0 ELSE IF x = 0 THEN 1 ELSE 3

\* lgamma(0.37) = 0.89, lgamma(1) = 0, lgamma(2.72) = 0.45
LGamma(k) == IF k <= 0 THEN 1 ELSE 0

\* Psi(0.37) = -2.9, Psi(1) = -0.58, Psi(2.72) = 0.80
Psi(k) == IF k <= 0 THEN -3 ELSE IF k = 1 THEN -1 ELSE 1

RECURSIVE SumOver(_, _)
SumOver(S, f) ==
    IF S = {} THEN 0
    ELSE LET x == CHOOSE y \in S : TRUE IN f[x] + SumOver(S \ {x}, f)

CellStats_GradientOnly(sstruct, e, cell, need_gradient) ==
    IF cell[1] \in sstruct.HasEvidence /\ need_gradient
    THEN e.stats[cell]
    ELSE <<0, 0, 0>>

\* stats of one evidence cell: the sufficient statistics <<sum_d, sum_log_d, N>>
\* (ComputeGammaMLESS with a known structure, ComputeGammaMLEESS without one
\* when the gradient is needed), zero without evidence for the data source
CellStats(sstruct, e, cell, need_gradient) ==
    IF cell[1] \in sstruct.HasEvidence /\ (sstruct.HasStruct \/ need_gradient)
    THEN e.stats[cell]
    ELSE <<0, 0, 0>>

\* (k-1)*sum_log_d - sum_d*theta_inv - N*k*log_theta - N*lgamma(k)
CellLogLikelihood(w, st, cell) ==
    LET k == Exp(w[EvidenceIndex(0, cell[2], cell[3], cell[1])])
        log_theta == w[EvidenceIndex(1, cell[2], cell[3], cell[1])]
        theta_inv == Exp(-log_theta)
    IN  (k - 1) * st[2] - st[1] * theta_inv - st[3] * k * log_theta - st[3] * LGamma(k)

\* grad_k = -(sum_log_d - N*log_theta - N*Psi(k)) * k
CellGradK(w, st, cell) ==
    LET k == Exp(w[EvidenceIndex(0, cell[2], cell[3], cell[1])])
        log_theta == w[EvidenceIndex(1, cell[2], cell[3], cell[1])]
    IN  -((st[2] - st[3] * log_theta - st[3] * Psi(k)) * k)

\* grad_theta = -(sum_d*theta_inv - N*k)
CellGradTheta(w, st, cell) ==
    LET k == Exp(w[EvidenceIndex(0, cell[2], cell[3], cell[1])])
        log_theta == w[EvidenceIndex(1, cell[2], cell[3], cell[1])]
        theta_inv == Exp(-log_theta)
    IN  -(st[1] * theta_inv - st[3] * k)

SEGradient_Added(grad, sstruct, w, e) ==
    [i \in 1..Len(grad) |->
        IF \E cell \in Cells : EvidenceIndex(0, cell[2], cell[3], cell[1]) = i
        THEN LET cell == CHOOSE cl \in Cells : EvidenceIndex(0, cl[2], cl[3], cl[1]) = i
             IN  grad[i] + CellGradK(w, CellStats(sstruct, e, cell, TRUE), cell)
        ELSE IF \E cell \in Cells : EvidenceIndex(1, cell[2], cell[3], cell[1]) = i
        THEN LET cell == CHOOSE cl \in Cells : EvidenceIndex(1, cl[2], cl[3], cl[1]) = i
             IN  grad[i] + CellGradTheta(w, CellStats(sstruct, e, cell, TRUE), cell)
        ELSE grad[i]]

\* result[index_k] = grad_k; result[index_theta] = grad_theta; for every cell
SEGradient(grad, sstruct, w, e) ==
    [i \in 1..Len(grad) |->
        IF \E cell \in Cells : EvidenceIndex(0, cell[2], cell[3], cell[1]) = i
        THEN LET cell == CHOOSE cl \in Cells : EvidenceIndex(0, cl[2], cl[3], cl[1]) = i
             IN  CellGradK(w, CellStats(sstruct, e, cell, TRUE), cell)
        ELSE IF \E cell \in Cells : EvidenceIndex(1, cell[2], cell[3], cell[1]) = i
        THEN LET cell == CHOOSE cl \in Cells : EvidenceIndex(1, cl[2], cl[3], cl[1]) = i
             IN  CellGradTheta(w, CellStats(sstruct, e, cell, TRUE), cell)
        ELSE grad[i]]

ScaleResultSE_Always(r, index, shared) ==
    VecScale(ScaleResult(r, index, shared), shared.hyperparam_data)

\* the final scaling of ComputeFunctionAndGradientSE
ScaleResultSE(r, index, shared) ==
    IF ~descriptions[index].HasStruct
    THEN VecScale(ScaleResult(r, index, shared), shared.hyperparam_data)
    ELSE ScaleResult(r, index, shared)

ComputeFunctionAndGradientSE(index, shared, e, need_gradient) ==
    LET sstruct == descriptions[index]
        w == shared.w
    IN  IF cfg.HAMMING_LOSS
        THEN Error("HAMMING_LOSS not implemented within EM training", 0, TRUE)
        ELSE IF shared.use_nonsmooth
        THEN Error("Viterbi training not supported within EM training", 0, TRUE)
        ELSE
        LET unconditional_score == e.u
            conditional_score == e.c
            passes == BlockPasses(shared, need_gradient)
                      + (IF ~sstruct.HasStruct
                         THEN (IF need_gradient THEN 3 ELSE 1)
                         ELSE BlockPasses(shared, need_gradient))
            grad == IF need_gradient
                    THEN SEGradient(VecSub(e.ucounts, e.ccounts), sstruct, w, e)
                    ELSE <<>>
            evidence_ll ==
                IF sstruct.HasStruct
                THEN SumOver(Cells,
                             [cell \in Cells |->
                                 CellLogLikelihood(w, CellStats(sstruct, e, cell, need_gradient), cell)])
                ELSE 0
            function_value_nonevidence == unconditional_score - conditional_score
            function_value == function_value_nonevidence - evidence_ll
            result1 == Append(grad, function_value)
        IN  Scored(
              IF sstruct.HasStruct /\ ~ScoresConsistent(conditional_score, unconditional_score)
              THEN AssertionFailed("Conditional score cannot exceed unconditional score.", passes, TRUE)
              ELSE IF IsBadParse(conditional_score)
              THEN Returned("badparse", ZeroFill(result1), passes, <<BadParseMsg(index)>>)
              ELSE IF cfg.NONCONVEX_MULTIPLIER # 0
              THEN Error("Nonconvex training not supported within EM training", passes, TRUE)
              ELSE Tested(
                     IF function_value_nonevidence < 0
                     THEN IF function_value_nonevidence < -PRECISION_TOL /\ sstruct.HasStruct
                          THEN Fatal("exit", passes, TRUE,
                                     <<NegativeMsg(index), "WriteToFile", "exit">>,
                                     NegParamsFile(index, w))
                          ELSE Returned("clamp", ZeroFill(result1), passes, <<>>)
                     ELSE Returned("normal", ScaleResultSE(result1, index, shared), passes, <<>>),
                     function_value),
              <<(<<unconditional_score, conditional_score>>)>>)

-----------------------------------------------------------------------------
(* The sparse commands: one entry per example of the corpus *)

\* result.clear()
Clear_Keep(res) == res

Clear(res) == <<>>

\* result.resize(n): the entries kept stay, the new ones are RealT()
Resize(res, n) == [i \in 1..n |-> IF i <= Len(res) THEN res[i] ELSE 0]

\* result.clear(); result.resize(descriptions.size()); result[index] = value;
SparseResult_NoClear(res, index, value) ==
    [Resize(res, NumExamples) EXCEPT ![index] = value]

SparseResult(res, index, value) ==
    [Resize(Clear(res), NumExamples) EXCEPT ![index] = value]

\* ComputationEngine::CheckParsability
CheckParsability(res, index, e) ==
    LET conditional_score == e.v
    IN  Returned("normal",
                 SparseResult(res, index, IF IsBadParse(conditional_score) THEN 0 ELSE 1),
                 1, <<>>)

\* ComputationEngine::ComputeSolutionNormBound
ComputeSolutionNormBound(res, index, shared, e) ==
    LET inside == cfg.SMOOTH_MAX_MARGIN \/ ~cfg.viterbi_parsing
        max_entropy == IF inside THEN e.u ELSE 0
        max_loss == IF cfg.HAMMING_LOSS THEN e.v ELSE 0
        passes == (IF inside THEN 1 ELSE 0) + (IF cfg.HAMMING_LOSS THEN 1 ELSE 0)
    IN  Returned("normal",
                 VecScale(SparseResult(res, index, (max_entropy \div shared.log_base) + max_loss),
                          descriptions[index].weight),
                 passes, <<>>)

\* ComputationEngine::ComputeGradientNormBound
ComputeGradientNormBound(res, index, e) ==
    LET max_L1_norm == e.v
    IN  Returned("normal", SparseResult(res, index, max_L1_norm), 1, <<>>)

\* ComputationEngine::CheckZerosInData
CheckZerosInData(res, index, shared, e) ==
    IF shared.which_data \notin descriptions[index].HasEvidence
    THEN Returned("noevidence", SparseResult(res, index, 0), 0, <<>>)
    ELSE Returned("normal", SparseResult(res, index, e.areZeros), 0, <<>>)

-----------------------------------------------------------------------------
(* ComputationEngine::ComputeLoss *)

ComputeLoss_Unchecked(index, shared, e) ==
    Returned("normal", ScaleResult(<<e.v>>, index, shared),
             (IF cfg.viterbi_parsing THEN 1 ELSE 3) + 1, <<>>)

\* the loss toggle is tested after the solution has been decoded
ComputeLoss(index, shared, e) ==
    LET decode == IF cfg.viterbi_parsing THEN 1 ELSE 3
    IN  IF ~shared.use_loss
        THEN Error("Must be using loss function in order to compute loss.", decode, TRUE)
        ELSE Returned("normal",
                      ScaleResult(<<e.v>>, index, shared),
                      decode + 1, <<>>)

-----------------------------------------------------------------------------
(* ComputationEngine::ComputeGammaMLEFunctionAndGradient *)

\* log(scale), rounded: log(1) = 0, log(2) = 0.69
Log(x) == IF x <= 1 THEN 0 ELSE 1

\* ll = (k-1)*sumlog - sum/theta - n*k*log(theta) - n*lgamma(k); the division
\* by theta = exp(log_theta) is the product with exp(-log_theta)
GammaLL(current_k, log_theta, sssum, sssumlog, num_examples) ==
    (current_k - 1) * sssumlog - sssum * Exp(-log_theta)
        - num_examples * current_k * log_theta - num_examples * LGamma(current_k)

\* "adjust suff stats as noted above", without a known structure
RebaseSumLogESS(sssumlog, ssq, num_examples, scale) ==
    sssumlog - ssq * Log(scale)

RebaseSumLogSS_NoRebase(sssumlog, ssq, num_examples, scale) == sssumlog

\* "adjust suff stats as noted above", with a known structure
RebaseSumLogSS(sssumlog, ssq, num_examples, scale) ==
    sssumlog - num_examples * Log(scale)

FirstQuery_Overwritten(first, nozeros) == nozeros

\* update_gammamle_sssum, _sssumlog and _ssq are copied from stats before the
\* zero-valued-observation branch overwrites stats with its second query
FirstQuery(first, nozeros) == first

ComputeGammaMLEFunctionAndGradient(index, shared, e, need_gradient) ==
    LET sstruct == descriptions[index]
        w == shared.w
        which_data == shared.which_data
    IN  IF which_data \notin sstruct.HasEvidence
        THEN [Returned("noevidence",
                       IF need_gradient THEN <<0, 0, 0, 0>> ELSE <<0>>, 0, <<>>)
              EXCEPT !.loads = FALSE]
        ELSE IF cfg.HAMMING_LOSS
        THEN Error("HAMMING_LOSS not implemented within EM training", 0, TRUE)
        ELSE IF shared.use_nonsmooth
        THEN Error("Viterbi training not supported within EM training", 0, TRUE)
        ELSE
        LET j == shared.id_base
            k == shared.id_pairing
            areZeros == shared.areZeros
            scale == shared.evidence_data_scale
            current_k == Exp(w[EvidenceIndex(0, j, k, which_data)])
            log_theta == w[EvidenceIndex(1, j, k, which_data)]
            \* first query: ComputeGammaMLE(E)SS(id, !areZeros, !areZeros, which_data)
            \* and GetNumExamplesSeq(Pairing)(id, false, which_data)
            stats == IF areZeros THEN FirstQuery(e.stats1, e.stats2) ELSE e.stats1
            update_gammamle_num_examples == e.n1
            update_gammamle_sssum == stats[1]
            update_gammamle_sssumlog == stats[2]
            update_gammamle_ssq == stats[3]
            \* second query, in the zero-valued-observation branch:
            \* ComputeGammaMLE(E)SS(id, true, true, which_data) and
            \* GetNumExamplesSeq(Pairing)(id, true, which_data)
            update_gammamle_sssumlog_nozeros == e.stats2[2]
            update_gammamle_num_examples_nozeros == e.n2
            ll == IF ~areZeros
                  THEN GammaLL(current_k, log_theta, update_gammamle_sssum,
                               update_gammamle_sssumlog, update_gammamle_num_examples)
                  ELSE GammaLL(current_k, log_theta, update_gammamle_sssum,
                               update_gammamle_sssumlog_nozeros,
                               update_gammamle_num_examples_nozeros)
            sssum2 == update_gammamle_sssum \div scale
            sssumlog2 ==
                IF ~sstruct.HasStruct
                THEN RebaseSumLogESS(update_gammamle_sssumlog, update_gammamle_ssq,
                                     update_gammamle_num_examples, scale)
                ELSE RebaseSumLogSS(update_gammamle_sssumlog, update_gammamle_ssq,
                                    update_gammamle_num_examples, scale)
            passes == IF ~sstruct.HasStruct THEN 3 ELSE 0
            result1 == IF need_gradient
                       THEN <<sssum2, sssumlog2, update_gammamle_num_examples, ll>>
                       ELSE <<ll>>
        IN  Returned(IF areZeros THEN "zeros" ELSE "normal",
                     VecScale(result1, sstruct.weight), passes, <<>>)

ComputeGammaMLEScalingFactor_OneZero(index, shared, e) ==
    LET sstruct == descriptions[index]
    IN  IF shared.which_data \notin sstruct.HasEvidence
        THEN [Returned("noevidence", <<0>>, 0, <<>>) EXCEPT !.loads = FALSE]
        ELSE Returned("normal", <<e.stats1[1], e.n1>>,
                      IF ~sstruct.HasStruct THEN 3 ELSE 0, <<>>)

\* ComputationEngine::ComputeGammaMLEScalingFactor
ComputeGammaMLEScalingFactor(index, shared, e) ==
    LET sstruct == descriptions[index]
    IN  IF shared.which_data \notin sstruct.HasEvidence
        THEN [Returned("noevidence", <<0, 0>>, 0, <<>>) EXCEPT !.loads = FALSE]
        ELSE Returned("normal", <<e.stats1[1], e.n1>>,
                      IF ~sstruct.HasStruct THEN 3 ELSE 0, <<>>)

-----------------------------------------------------------------------------
(* ComputationEngine::ComputeHessianVectorProduct *)

\* const RealT EPSILON = RealT(1e-8), the unit of the perturbation
EPSILON == 1

VecDiv(a, x) == [i \in 1..Len(a) |-> a[i] \div x]

\* SharedInfo<RealT> shared_temp(shared) with
\* shared_temp.w[i] = shared.w[i] + sign * EPSILON * v[i]
Perturbed(shared, sign) ==
    [shared EXCEPT !.w = VecAdd(shared.w, VecScale(shared.v, sign * EPSILON))]

ComputeHessianVectorProduct_OneSided(index, shared, e) ==
    IF cfg.viterbi_parsing
    THEN Error("Should not use Hessian-vector products with Viterbi parsing.", 0, FALSE)
    ELSE
    LET first == ComputeFunctionAndGradient(index, Perturbed(shared, 1), e.plus, TRUE)
        second == ComputeFunctionAndGradient(index, shared, e.minus, TRUE)
    IN  IF first.outcome # "returned" THEN first
        ELSE IF second.outcome # "returned"
        THEN [second EXCEPT !.passes = first.passes + second.passes]
        ELSE [Returned("normal",
                       VecDiv(VecSub(first.result, second.result), EPSILON),
                       first.passes + second.passes,
                       first.events \o second.events)
              EXCEPT !.scores = first.scores \o second.scores]

\* the test is on the option viterbi_parsing; shared.use_nonsmooth goes to
\* the two evaluations with the rest of shared_temp
ComputeHessianVectorProduct(index, shared, e) ==
    IF cfg.viterbi_parsing
    THEN Error("Should not use Hessian-vector products with Viterbi parsing.", 0, FALSE)
    ELSE
    LET shared_plus  == Perturbed(shared, 1)
        shared_minus == Perturbed(shared, -1)
        first == ComputeFunctionAndGradient(index, shared_plus, e.plus, TRUE)
        second == ComputeFunctionAndGradient(index, shared_minus, e.minus, TRUE)
    IN  IF first.outcome # "returned" THEN first
        ELSE IF second.outcome # "returned"
        THEN [second EXCEPT !.passes = first.passes + second.passes]
        ELSE [Returned("normal",
                       VecDiv(VecSub(first.result, second.result), 2 * EPSILON),
                       first.passes + second.passes,
                       first.events \o second.events)
              EXCEPT !.scores = first.scores \o second.scores]

-----------------------------------------------------------------------------
(* ComputationEngine::MakeOutputFilename and ComputationEngine::Predict *)

\* File names are sequences of path components; "" is the empty sequence.
GetDirName(filename) ==
    IF Len(filename) = 0 THEN <<>> ELSE SubSeq(filename, 1, Len(filename) - 1)

LastComponent(filename) ==
    IF Len(filename) = 0 THEN <<>> ELSE <<filename[Len(filename)]>>

\* "%lf" prints six decimals: a value in units of 5e-7 rounded to units of 1e-6
FormatLf(x) == IF x >= 0 THEN (x + 1) \div 2 ELSE 0 - ((1 - x) \div 2)

MakeOutputFilename_OneLayout(size, input_filename, output_destination, cross_validation, gamma) ==
    IF output_destination = <<>> THEN <<>>
    ELSE
    LET dir_name == GetDirName(output_destination)
        base_name == LastComponent(output_destination)
        prefix == dir_name
        gamma_part == <<(<<base_name, "gamma", FormatLf(gamma)>>)>>
    IN  IF cross_validation
        THEN prefix \o base_name \o gamma_part
        ELSE prefix \o base_name

\* size is descriptions.size(); the component "<base>.gamma=<gamma>" is the
\* tuple <<base_name, "gamma", FormatLf(gamma)>>
MakeOutputFilename(size, input_filename, output_destination, cross_validation, gamma) ==
    IF output_destination = <<>> THEN <<>>
    ELSE
    LET dir_name == GetDirName(output_destination)
        base_name == LastComponent(output_destination)
        prefix == dir_name
        gamma_part == <<(<<base_name, "gamma", FormatLf(gamma)>>)>>
    IN  IF size > 1
        THEN IF cross_validation
             THEN prefix \o base_name \o gamma_part \o <<GetBaseName(input_filename)>>
             ELSE prefix \o base_name \o <<GetBaseName(input_filename)>>
        ELSE IF cross_validation
             THEN prefix \o base_name \o gamma_part
             ELSE prefix \o base_name

\* the output artifacts of one Predict call, in the order they are written
PredictOutputs(index, shared, opts) ==
    LET name(dest) == MakeOutputFilename(NumExamples, descriptions[index].input_filename,
                                         dest, opts.gamma < 0, shared.gamma)
        one(kind, dest) == IF dest # <<>> THEN <<(<<"write", kind, name(dest)>>)>> ELSE <<>>
    IN  one("parens", opts.output_parens_destination)
        \o one("bpseq", opts.output_bpseq_destination)
        \o one("posteriors", opts.output_posteriors_destination)
        \o (IF opts.output_parens_destination = <<>>
               /\ opts.output_bpseq_destination = <<>>
               /\ opts.output_posteriors_destination = <<>>
            THEN <<(<<"write", "parens", <<"stdout">> >>)>> ELSE <<>>)

\* the part of Predict after the solution has been decoded: "write output"
WriteOutput(res, index, shared, e, opts, passes) ==
    IF e.open_fails
       /\ (opts.output_parens_destination # <<>>
           \/ opts.output_bpseq_destination # <<>>
           \/ opts.output_posteriors_destination # <<>>)
    THEN Error("Unable to open output file for writing.", passes, TRUE)
    ELSE Returned("normal", res, passes, PredictOutputs(index, shared, opts))

\* result.clear() comes first; nothing is pushed on any path
Predict(res, index, shared, e, opts) ==
    LET cleared == Clear(res)
    IN  IF cfg.viterbi_parsing
        THEN IF opts.use_evidence
             THEN Error("Viterbi parsing is not supported with evidence yet", 0, TRUE)
             ELSE IF opts.partition_function_only
             THEN Returned("partition_function_only", cleared, 1, <<"Viterbi score">>)
             ELSE WriteOutput(cleared, index, shared, e, opts, 1)
        ELSE IF opts.partition_function_only
             THEN Returned("partition_function_only", cleared, 1,
                           <<"Log partition coefficient">>)
             ELSE WriteOutput(cleared, index, shared, e, opts, 3)

-----------------------------------------------------------------------------
(* ComputationEngine::DoComputation *)

Commands ==
    { "CHECK_PARSABILITY", "COMPUTE_SOLUTION_NORM_BOUND", "COMPUTE_GRADIENT_NORM_BOUND",
      "COMPUTE_LOSS", "COMPUTE_FUNCTION", "COMPUTE_GRADIENT",
      "COMPUTE_MSTEP_FUNCTION", "COMPUTE_MSTEP_GRADIENT",
      "COMPUTE_GAMMAMLE_FUNCTION", "COMPUTE_GAMMAMLE_GRADIENT",
      "COMPUTE_GAMMAMLE_SCALING_FACTOR", "CHECK_ZEROS_IN_DATA",
      "COMPUTE_FUNCTION_SE", "COMPUTE_GRADIENT_SE", "COMPUTE_HV", "PREDICT" }

\* a value of the command field that is none of the enumerators
UnknownCommands == { "UNKNOWN" }

\* default: Assert(false, "Unknown command type."); break;
UnknownCommand_Ignored ==
    Returned("default", <<>>, 0, <<>>)

UnknownCommand ==
    Fatal("assert", 0, FALSE, <<"Unknown command type.">>, NoFile)

DoComputation(res, command, index, shared, e, opts) ==
    CASE command = "CHECK_PARSABILITY" -> CheckParsability(res, index, e)
      [] command = "COMPUTE_SOLUTION_NORM_BOUND" -> ComputeSolutionNormBound(res, index, shared, e)
      [] command = "COMPUTE_GRADIENT_NORM_BOUND" -> ComputeGradientNormBound(res, index, e)
      [] command = "COMPUTE_LOSS" -> ComputeLoss(index, shared, e)
      [] command = "COMPUTE_FUNCTION" -> ComputeFunctionAndGradient(index, shared, e, FALSE)
      [] command = "COMPUTE_GRADIENT" -> ComputeFunctionAndGradient(index, shared, e, TRUE)
      [] command = "COMPUTE_MSTEP_FUNCTION" -> ComputeMStepFunctionAndGradient(index, shared, e, FALSE)
      [] command = "COMPUTE_MSTEP_GRADIENT" -> ComputeMStepFunctionAndGradient(index, shared, e, TRUE)
      [] command = "COMPUTE_GAMMAMLE_FUNCTION" -> ComputeGammaMLEFunctionAndGradient(index, shared, e, FALSE)
      [] command = "COMPUTE_GAMMAMLE_GRADIENT" -> ComputeGammaMLEFunctionAndGradient(index, shared, e, TRUE)
      [] command = "COMPUTE_GAMMAMLE_SCALING_FACTOR" -> ComputeGammaMLEScalingFactor(index, shared, e)
      [] command = "CHECK_ZEROS_IN_DATA" -> CheckZerosInData(res, index, shared, e)
      [] command = "COMPUTE_FUNCTION_SE" -> ComputeFunctionAndGradientSE(index, shared, e, FALSE)
      [] command = "COMPUTE_GRADIENT_SE" -> ComputeFunctionAndGradientSE(index, shared, e, TRUE)
      [] command = "COMPUTE_HV" -> ComputeHessianVectorProduct(index, shared, e)
      [] command = "PREDICT" -> Predict(res, index, shared, e, opts)
      [] OTHER -> UnknownCommand

\* The vectors handed to inference_engine.LoadValues during a command, in
\* program order.
LoadedValues(command, index, shared) ==
    LET w == VecScale(shared.w, shared.log_base)
        zeros == ZeroVec(NumLogicalParameters)
        hasEvidence == shared.which_data \in descriptions[index].HasEvidence
    IN  CASE command \in {"CHECK_PARSABILITY", "COMPUTE_SOLUTION_NORM_BOUND",
                          "CHECK_ZEROS_IN_DATA"} -> <<zeros>>
          [] command = "COMPUTE_GRADIENT_NORM_BOUND" -> <<OnesVec(NumLogicalParameters)>>
          [] command = "COMPUTE_LOSS" -> IF shared.use_loss THEN <<w, zeros>> ELSE <<w>>
          [] command \in {"COMPUTE_GAMMAMLE_FUNCTION", "COMPUTE_GAMMAMLE_GRADIENT",
                          "COMPUTE_GAMMAMLE_SCALING_FACTOR"} ->
                IF hasEvidence THEN <<w>> ELSE <<>>
          [] command = "COMPUTE_HV" ->
                IF cfg.viterbi_parsing THEN <<>>
                ELSE <<VecScale(Perturbed(shared, 1).w, shared.log_base),
                       VecScale(Perturbed(shared, -1).w, shared.log_base)>>
          [] command \in {"COMPUTE_FUNCTION", "COMPUTE_GRADIENT",
                          "COMPUTE_MSTEP_FUNCTION", "COMPUTE_MSTEP_GRADIENT",
                          "COMPUTE_FUNCTION_SE", "COMPUTE_GRADIENT_SE", "PREDICT"} -> <<w>>
          [] OTHER -> <<>>

\* The caller's SharedInfo when a command ends.  Every handler takes it as
\* const SharedInfo<RealT> &shared; ComputeHessianVectorProduct writes
\* w +/- EPSILON * v to shared_temp, a copy constructed from shared.
SharedAfter_InPlace(command, shared) ==
    IF command = "COMPUTE_HV" /\ ~cfg.viterbi_parsing THEN Perturbed(shared, -1) ELSE shared

SharedAfter(command, shared) ==
    IF command = "COMPUTE_HV"
    THEN LET shared_temp == Perturbed(Perturbed(shared, 1), -2)
         IN  shared
    ELSE shared

-----------------------------------------------------------------------------
(* Inputs: the arguments of a call and the answers of the inference engine *)

\* Scores the engine reports, in units of 5e-7: an unconditional score is
\* a regular score or lies far below the sentinel; a conditional score is a
\* regular score or the sentinel itself.  The differences cover -3 (beyond
\* the tolerance), -2 (the tolerance itself), -1 (within it), 0 and above.
UScores == {2 * NEG_INF, 0, 1, 3}

CScores == {NEG_INF, 0, 1, 3}

\* feature counts and expectations returned by the engine
CountVecs == {ZeroVec(NumLogicalParameters), OnesVec(NumLogicalParameters)}

\* parameter vectors: all 0, all 1, and log-shape -1 for every evidence cell
ShapeDown ==
    [i \in 1..NumLogicalParameters |->
        IF \E cell \in Cells : EvidenceIndex(0, cell[2], cell[3], cell[1]) = i
        THEN -1 ELSE 0]

Ws == {ZeroVec(NumLogicalParameters), OnesVec(NumLogicalParameters), ShapeDown}

LogBases == {1, 2}

Hyperparams == {1, 2}

\* Gamma sufficient statistics <<sum_d, sum_log_d, N or ssq>>: none; the three
\* observations 1, 2, 3; three observations near 0.1
StatsSet == {<<0, 0, 0>>, <<6, 2, 3>>, <<0, -7, 3>>}

NoOptions ==
    [use_evidence |-> FALSE, partition_function_only |-> FALSE, gamma |-> 0,
     output_parens_destination |-> <<>>, output_bpseq_destination |-> <<>>,
     output_posteriors_destination |-> <<>>]

NoShared ==
    [w |-> ZeroVec(NumLogicalParameters), v |-> ZeroVec(NumLogicalParameters),
     log_base |-> 1, gamma |-> 0, use_nonsmooth |-> FALSE, use_loss |-> FALSE,
     hyperparam_data |-> 1, which_data |-> 0, id_base |-> 0, id_pairing |-> 0,
     areZeros |-> FALSE, evidence_data_scale |-> 1]

\* the answers read by ComputeFunctionAndGradient
NoScores ==
    [u |-> 0, c |-> 0, u3 |-> 0, ucounts |-> <<>>, ccounts |-> <<>>, ucounts3 |-> <<>>]

NoAnswers ==
    [u |-> 0, c |-> 0, u3 |-> 0, v |-> 0,
     ucounts |-> <<>>, ccounts |-> <<>>, ucounts3 |-> <<>>,
     stats |-> [cell \in Cells |-> <<0, 0, 0>>],
     stats1 |-> <<0, 0, 0>>, n1 |-> 0, stats2 |-> <<0, 0, 0>>, n2 |-> 0,
     areZeros |-> 0, open_fails |-> FALSE, plus |-> NoScores, minus |-> NoScores]

NoCall == Returned("none", <<>>, 0, <<>>)

\* res is what result holds on entry, e the answers of the inference engine
\* during the call, shared_after the caller's SharedInfo when the call ends,
\* loaded the vectors handed to LoadValues
NoArgs ==
    [command |-> "none", index |-> 0, shared |-> NoShared, opts |-> NoOptions,
     res |-> <<>>, e |-> NoAnswers, shared_after |-> NoShared, loaded |-> <<>>]

\* the second-pass answers are read only in the nonconvex block
SecondPass(S) ==
    IF cfg.NONCONVEX_MULTIPLIER # 0 /\ cfg.STOCHASTIC_GRADIENT THEN S ELSE {0}

\* counts are read only when the gradient is needed
CountsIf(need) == IF need THEN CountVecs ELSE {<<>>}

-----------------------------------------------------------------------------
(* The dispatcher specification: one DoComputation call after another *)

NoBatch == [command |-> "none", shared |-> NoShared, units |-> {}]

NoQuery ==
    [kind |-> "none", units |-> {}, w |-> <<>>, toggle_use_nonsmooth |-> FALSE,
     toggle_use_loss |-> FALSE, log_base |-> 1, hit |-> FALSE, after |-> "none"]

NoWork == [batches |-> 0, passes |-> 0]

\* the state after construction: nothing computed, nothing cached
InitEngine ==
    /\ status = "ready"
    /\ call = NoCall
    /\ args = NoArgs
    /\ result = <<>>
    /\ files = {}

InitBatchVars ==
    /\ batch = NoBatch
    /\ pending = {}
    /\ acc = <<>>
    /\ own = [i \in Examples |-> 0]

InitWrapper ==
    /\ cached_toggle_use_nonsmooth = FALSE
    /\ cached_toggle_use_loss = FALSE
    /\ cached_units = {}
    /\ cached_w = <<>>
    /\ cached_function = <<>>
    /\ cached_gradient = <<>>
    /\ cached_function_gammamle = <<>>
    /\ cached_gradient_gammamle = <<>>
    /\ cached_key_gammamle = <<FALSE, FALSE, {}, <<>> >>
    /\ query = NoQuery
    /\ answer = <<>>
    /\ work = NoWork

\* no inner optimizer constructed
NoOpt ==
    [kind |-> "none", status |-> "idle", last |-> "none", s0 |-> 0, s1 |-> 0,
     x0 |-> <<>>, start |-> <<>>, iteration |-> 0, steps |-> <<>>, gradients |-> <<>>,
     value |-> <<>>]

\* no MakeOutputFilename call made
NoNaming ==
    [size |-> 0, input_filename |-> [dir |-> "train", base |-> 0],
     output_destination |-> <<>>, cross_validation |-> FALSE, gamma |-> 0,
     made |-> FALSE, name |-> <<>>]

InitAux ==
    /\ opt = NoOpt
    /\ naming = NoNaming

Init ==
    /\ cfg \in Configs
    /\ InitEngine
    /\ InitBatchVars
    /\ InitWrapper
    /\ InitAux

\* DoComputation(result, shared, nonshared) with result holding res on entry
Do(res, command, index, shared, e, opts) ==
    /\ status = "ready"
    /\ \E o \in {DoComputation(res, command, index, shared, e, opts)} :
           /\ call' = o
           /\ result' = o.result
           /\ status' = IF o.outcome = "returned" THEN "returned" ELSE "fatal"
           /\ files' = IF o.file # NoFile THEN files \cup {o.file} ELSE files
    /\ args' = [command |-> command, index |-> index, shared |-> shared, opts |-> opts,
                res |-> res, e |-> e, shared_after |-> SharedAfter(command, shared),
                loaded |-> LoadedValues(command, index, shared)]
    /\ UNCHANGED <<cfg, batchvars, wrappervars, auxvars>>

\* What a command does not read is not drawn: the scores and counts are not
\* read when the command stops before its first inference pass.
UScoresIf(read) == IF read THEN UScores ELSE {0}

CScoresIf(read) == IF read THEN CScores ELSE {0}

\* the per-cell statistics the engine answers: the same for every cell, or
\* the three near-zero observations in the cells of pairing state 1 only
StatsChoices ==
    {[cell \in Cells |-> st] : st \in StatsSet}
    \cup {[cell \in Cells |-> IF cell[3] = 1 THEN <<0, -7, 3>> ELSE <<0, 0, 0>>]}

StatsIf(read) == IF read THEN StatsChoices ELSE {[cell \in Cells |-> <<0, 0, 0>>]}

FunctionAndGradientCall ==
    /\ status = "ready"
    /\ \E index \in Examples, need \in BOOLEAN, w \in Ws, lb \in LogBases, ns \in BOOLEAN :
       \E u \in UScores, c \in CScores, u3 \in SecondPass(UScores) :
       \E uc \in CountsIf(need), cc \in CountsIf(need) :
       \E uc3 \in (IF need /\ cfg.NONCONVEX_MULTIPLIER # 0 /\ cfg.STOCHASTIC_GRADIENT
                   THEN CountVecs ELSE {uc}) :
           Do(<<>>, IF need THEN "COMPUTE_GRADIENT" ELSE "COMPUTE_FUNCTION", index,
              [NoShared EXCEPT !.w = w, !.log_base = lb, !.use_nonsmooth = ns],
              [NoAnswers EXCEPT !.u = u, !.c = c, !.u3 = u3, !.ucounts = uc,
                                !.ccounts = cc, !.ucounts3 = uc3],
              NoOptions)

\* the EM commands stop at once in a HAMMING_LOSS build and under use_nonsmooth
EMRuns(ns) == ~cfg.HAMMING_LOSS /\ ~ns

MStepCall ==
    /\ status = "ready"
    /\ \E index \in Examples, need \in BOOLEAN, w \in Ws, lb \in LogBases, ns \in BOOLEAN :
       \E u \in UScoresIf(EMRuns(ns)),
          c \in CScoresIf(EMRuns(ns) /\ descriptions[index].HasStruct) :
       \E uc \in CountsIf(need /\ EMRuns(ns)),
          cc \in CountsIf(EMRuns(ns) /\ (need \/ ~descriptions[index].HasStruct)) :
           Do(<<>>, IF need THEN "COMPUTE_MSTEP_GRADIENT" ELSE "COMPUTE_MSTEP_FUNCTION", index,
              [NoShared EXCEPT !.w = w, !.log_base = lb, !.use_nonsmooth = ns],
              [NoAnswers EXCEPT !.u = u, !.c = c, !.ucounts = uc, !.ccounts = cc],
              NoOptions)

SECall ==
    /\ status = "ready"
    /\ \E index \in Examples, need \in BOOLEAN, w \in Ws, lb \in LogBases, ns \in BOOLEAN :
       \E hd \in (IF EMRuns(ns) THEN Hyperparams ELSE {1}),
          u \in UScoresIf(EMRuns(ns)), c \in CScoresIf(EMRuns(ns)) :
       \E uc \in CountsIf(need /\ EMRuns(ns)), cc \in CountsIf(need /\ EMRuns(ns)),
          st \in StatsIf(EMRuns(ns) /\ descriptions[index].HasEvidence # {}
                         /\ (need \/ descriptions[index].HasStruct)) :
           Do(<<>>, IF need THEN "COMPUTE_GRADIENT_SE" ELSE "COMPUTE_FUNCTION_SE", index,
              [NoShared EXCEPT !.w = w, !.log_base = lb, !.use_nonsmooth = ns,
                               !.hyperparam_data = hd],
              [NoAnswers EXCEPT !.u = u, !.c = c, !.ucounts = uc, !.ccounts = cc,
                                !.stats = st],
              NoOptions)

UnknownCall ==
    /\ status = "ready"
    /\ \E command \in UnknownCommands, index \in Examples, w \in Ws :
           Do(<<>>, command, index, [NoShared EXCEPT !.w = w], NoAnswers, NoOptions)

\* what std::vector<RealT> &result holds on entry: nothing, or the result of
\* an earlier command of the same worker
StaleResults == {<<>>, [i \in 1..(NumExamples + 1) |-> 7]}

SparseCommands ==
    { "CHECK_PARSABILITY", "COMPUTE_SOLUTION_NORM_BOUND", "COMPUTE_GRADIENT_NORM_BOUND",
      "CHECK_ZEROS_IN_DATA" }

SparseCall ==
    /\ status = "ready"
    /\ \E command \in SparseCommands, index \in Examples, res \in StaleResults :
       \E lb \in (IF command = "COMPUTE_SOLUTION_NORM_BOUND" THEN LogBases ELSE {1}),
          u \in (IF command = "COMPUTE_SOLUTION_NORM_BOUND" THEN {0, 3} ELSE {0}),
          v \in (IF command = "CHECK_ZEROS_IN_DATA" THEN {0}
                ELSE {NEG_INF, NEG_INF \div 2, 0, 3}),
          z \in (IF command = "CHECK_ZEROS_IN_DATA" THEN {0, 1} ELSE {0}) :
           Do(res, command, index, [NoShared EXCEPT !.log_base = lb],
              [NoAnswers EXCEPT !.u = u, !.v = v, !.areZeros = z], NoOptions)

LossCall ==
    /\ status = "ready"
    /\ \E index \in Examples, lb \in LogBases, ul \in BOOLEAN, v \in {0, 3} :
           Do(<<>>, "COMPUTE_LOSS", index,
              [NoShared EXCEPT !.log_base = lb, !.use_loss = ul],
              [NoAnswers EXCEPT !.v = v], NoOptions)

\* the Gamma commands read the engine only for an example with evidence
GammaRuns(index, ns) == descriptions[index].HasEvidence # {} /\ EMRuns(ns)

GammaMLECall ==
    /\ status = "ready"
    /\ \E index \in Examples, need \in BOOLEAN, ns \in BOOLEAN :
       \E w \in (IF GammaRuns(index, ns) THEN Ws ELSE {ZeroVec(NumLogicalParameters)}),
          az \in (IF GammaRuns(index, ns) THEN BOOLEAN ELSE {FALSE}),
          scale \in (IF GammaRuns(index, ns) THEN {1, 2} ELSE {1}),
          st \in (IF GammaRuns(index, ns) THEN StatsSet ELSE {<<0, 0, 0>>}),
          n \in (IF GammaRuns(index, ns) THEN {3, 4} ELSE {0}) :
           Do(<<>>, IF need THEN "COMPUTE_GAMMAMLE_GRADIENT" ELSE "COMPUTE_GAMMAMLE_FUNCTION",
              index,
              [NoShared EXCEPT !.w = w, !.use_nonsmooth = ns, !.areZeros = az,
                               !.evidence_data_scale = scale],
              [NoAnswers EXCEPT !.stats1 = st, !.n1 = n,
                                !.stats2 = IF az THEN <<6, 1, 2>> ELSE <<0, 0, 0>>,
                                !.n2 = IF az THEN 2 ELSE 0],
              NoOptions)

ScalingFactorCall ==
    /\ status = "ready"
    /\ \E index \in Examples :
       \E st \in (IF descriptions[index].HasEvidence # {} THEN StatsSet ELSE {<<0, 0, 0>>}),
          n \in (IF descriptions[index].HasEvidence # {} THEN {3, 4} ELSE {0}) :
           Do(<<>>, "COMPUTE_GAMMAMLE_SCALING_FACTOR", index, NoShared,
              [NoAnswers EXCEPT !.stats1 = st, !.n1 = n], NoOptions)

\* the answers of the engine at w + EPSILON*v and at w - EPSILON*v
HVAnswers ==
    { [NoScores EXCEPT !.u = 3, !.c = 1, !.ucounts = OnesVec(NumLogicalParameters),
                       !.ccounts = ZeroVec(NumLogicalParameters)],
      [NoScores EXCEPT !.u = 1, !.c = 1, !.ucounts = ZeroVec(NumLogicalParameters),
                       !.ccounts = ZeroVec(NumLogicalParameters)],
      [NoScores EXCEPT !.u = 0, !.c = 1, !.ucounts = ZeroVec(NumLogicalParameters),
                       !.ccounts = OnesVec(NumLogicalParameters)] }

HVCall ==
    /\ status = "ready"
    /\ \E index \in Examples, ns \in BOOLEAN, lb \in LogBases :
       \E w \in {ZeroVec(NumLogicalParameters), ShapeDown}, v \in CountVecs,
          plus \in (IF cfg.viterbi_parsing THEN {NoScores} ELSE HVAnswers),
          minus \in (IF cfg.viterbi_parsing THEN {NoScores} ELSE HVAnswers) :
           Do(<<>>, "COMPUTE_HV", index,
              [NoShared EXCEPT !.w = w, !.v = v, !.log_base = lb, !.use_nonsmooth = ns],
              [NoAnswers EXCEPT !.plus = plus, !.minus = minus], NoOptions)

\* output destinations of the options: none, a file name, a name in a directory
Destinations == {<<>>, <<"out">>, <<"dir", "out">>}

PredictOptions ==
    {[NoOptions EXCEPT !.output_parens_destination = d, !.gamma = g] :
        d \in Destinations, g \in {-1, 0}}
    \cup {[NoOptions EXCEPT !.output_bpseq_destination = <<"dir", "out">>,
                            !.output_posteriors_destination = <<"out">>],
          [NoOptions EXCEPT !.partition_function_only = TRUE],
          [NoOptions EXCEPT !.partition_function_only = TRUE, !.use_evidence = TRUE],
          [NoOptions EXCEPT !.use_evidence = TRUE]}

PredictCall ==
    /\ status = "ready"
    /\ \E index \in Examples, opts \in PredictOptions, open_fails \in BOOLEAN,
          res \in StaleResults :
           Do(res, "PREDICT", index, [NoShared EXCEPT !.gamma = 2],
              [NoAnswers EXCEPT !.open_fails = open_fails], opts)

\* the caller takes the result and goes on to its next call
NextCall ==
    /\ status = "returned"
    /\ status' = "ready"
    /\ call' = NoCall
    /\ args' = NoArgs
    /\ result' = <<>>
    /\ UNCHANGED <<cfg, files, batchvars, wrappervars, auxvars>>

Next ==
    \/ FunctionAndGradientCall
    \/ MStepCall
    \/ SECall
    \/ SparseCall
    \/ LossCall
    \/ GammaMLECall
    \/ ScalingFactorCall
    \/ HVCall
    \/ PredictCall
    \/ UnknownCall
    \/ NextCall

Spec == Init /\ [][Next]_vars

-----------------------------------------------------------------------------
(* The fan-out/reduce collaborator: one batch after another.  A worker hands  *)
(* the same result vector to every DoComputation call; the reduction is the   *)
(* elementwise sum of what the calls leave in it.                             *)

\* ret += result
Accumulate(sum, r) ==
    IF sum = <<>> THEN r ELSE IF r = <<>> THEN sum ELSE VecAdd(sum, r)

\* the parameters broadcast with a batch of a sparse command
BatchShared == {[NoShared EXCEPT !.log_base = lb] : lb \in LogBases}

\* the engine's answers to one example of a batch of a sparse command
SparseAnswers(command) ==
    {[NoAnswers EXCEPT !.u = u, !.v = v, !.areZeros = z] :
        u \in (IF command = "COMPUTE_SOLUTION_NORM_BOUND" THEN {0, 3} ELSE {0}),
        v \in (IF command = "CHECK_ZEROS_IN_DATA" THEN {0} ELSE {NEG_INF, 0, 3}),
        z \in (IF command = "CHECK_ZEROS_IN_DATA" THEN {0, 1} ELSE {0})}

StartBatch ==
    /\ status = "ready"
    /\ \E command \in SparseCommands, units \in (SUBSET Examples) \ {{}} :
       \E shared \in (IF command = "COMPUTE_SOLUTION_NORM_BOUND"
                      THEN BatchShared ELSE {NoShared}) :
           /\ batch' = [command |-> command, shared |-> shared, units |-> units]
           /\ pending' = units
    /\ acc' = <<>>
    /\ own' = [i \in Examples |-> 0]
    /\ status' = "working"
    /\ UNCHANGED <<cfg, call, args, result, files, wrappervars, auxvars>>

\* one example of the batch, in any order
Work ==
    /\ status = "working"
    /\ \E index \in pending, e \in SparseAnswers(batch.command) :
       \E o \in {DoComputation(result, batch.command, index, batch.shared, e, NoOptions)} :
       LET alone == DoComputation(<<>>, batch.command, index, batch.shared, e, NoOptions)
       IN  /\ call' = o
           /\ args' = [command |-> batch.command, index |-> index,
                       shared |-> batch.shared, opts |-> NoOptions,
                       res |-> result, e |-> e,
                       shared_after |-> SharedAfter(batch.command, batch.shared),
                       loaded |-> LoadedValues(batch.command, index, batch.shared)]
           /\ result' = o.result
           /\ files' = IF o.file # NoFile THEN files \cup {o.file} ELSE files
           /\ IF o.outcome = "returned"
              THEN /\ acc' = Accumulate(acc, o.result)
                   /\ own' = [own EXCEPT ![index] = alone.result[index]]
                   /\ pending' = pending \ {index}
                   /\ status' = IF pending' = {} THEN "reduced" ELSE "working"
              ELSE /\ status' = "fatal"
                   /\ UNCHANGED <<acc, own, pending>>
    /\ UNCHANGED <<cfg, batch, wrappervars, auxvars>>

\* the caller takes the sum; the worker's vector stays as the last call left it
Reduce ==
    /\ status = "reduced"
    /\ status' = "ready"
    /\ batch' = NoBatch
    /\ acc' = <<>>
    /\ own' = [i \in Examples |-> 0]
    /\ call' = NoCall
    /\ args' = NoArgs
    /\ UNCHANGED <<cfg, result, files, pending, wrappervars, auxvars>>

NextBatch ==
    \/ StartBatch
    \/ Work
    \/ Reduce

SpecBatch == Init /\ [][NextBatch]_vars

-----------------------------------------------------------------------------
(* ComputationWrapper: the caching oracle over batches of the dispatcher      *)

\* The inference engine of the oracle specification: a deterministic engine
\* that keeps its contract.  Every example has two candidate structures, the
\* annotated one and a rival; a score is log_base times the dot product of
\* the parameters and the features of a structure (LoadValues(w * log_base)).
\* The Viterbi score is the larger of the two; the log partition function
\* lies above it by an entropy term that does not scale with log_base.
TrueFeatures(index) ==
    [i \in 1..NumLogicalParameters |-> IF i = 1 THEN index ELSE 0]

RivalFeatures(index) == OnesVec(NumLogicalParameters)

EngineAnswers(index, shared) ==
    LET true_score == shared.log_base * DotProduct(shared.w, TrueFeatures(index))
        rival_score == shared.log_base * DotProduct(shared.w, RivalFeatures(index))
        best == IF rival_score > true_score THEN RivalFeatures(index) ELSE TrueFeatures(index)
        viterbi == IF rival_score > true_score THEN rival_score ELSE true_score
    IN  [NoAnswers EXCEPT
            !.u = IF shared.use_nonsmooth THEN viterbi ELSE viterbi + 1,
            !.c = true_score,
            !.ucounts = IF shared.use_nonsmooth \/ shared.log_base > 1
                        THEN VecScale(best, 2)
                        ELSE VecAdd(TrueFeatures(index), RivalFeatures(index)),
            !.ccounts = VecScale(TrueFeatures(index), 2),
            !.stats1 = <<6, 2, 3>>,
            !.n1 = 3]

\* the dispatcher run over the units of a batch and the results summed
RECURSIVE DistributeComputation(_, _, _)
DistributeComputation(units, command, shared) ==
    IF units = {}
    THEN [outcome |-> "returned", result |-> <<>>, passes |-> 0]
    ELSE LET index == CHOOSE i \in units : \A j \in units : i <= j
             o == DoComputation(<<>>, command, index, shared,
                                EngineAnswers(index, shared), NoOptions)
             rest == DistributeComputation(units \ {index}, command, shared)
         IN  IF o.outcome # "returned"
             THEN [outcome |-> o.outcome, result |-> <<>>, passes |-> o.passes]
             ELSE IF rest.outcome # "returned"
             THEN [rest EXCEPT !.passes = @ + o.passes]
             ELSE [outcome |-> "returned",
                   result  |-> Accumulate(o.result, rest.result),
                   passes  |-> o.passes + rest.passes]

\* shared_info as a query fills it
QueryShared(w, toggle_use_nonsmooth, toggle_use_loss, log_base) ==
    [NoShared EXCEPT !.w = w, !.use_nonsmooth = toggle_use_nonsmooth,
                     !.use_loss = toggle_use_loss, !.log_base = log_base]

\* all entries but the last (cached_gradient.pop_back())
PopBack(a) == SubSeq(a, 1, Len(a) - 1)

\* the key comparison of the structural slot
StructuralHit(units, w, toggle_use_nonsmooth, toggle_use_loss) ==
    /\ cached_toggle_use_nonsmooth = toggle_use_nonsmooth
    /\ cached_toggle_use_loss = toggle_use_loss
    /\ cached_units = units
    /\ cached_w = w

\* the key comparison of the evidence slot
GammaMLEHit(units, w, toggle_use_nonsmooth, toggle_use_loss) ==
    cached_key_gammamle = <<toggle_use_nonsmooth, toggle_use_loss, units, w>>

\* the record of a query: after is the kind of the query before it
QueryRecord(kind, units, w, toggle_use_nonsmooth, toggle_use_loss, log_base, hit) ==
    [kind |-> kind, units |-> units, w |-> w,
     toggle_use_nonsmooth |-> toggle_use_nonsmooth,
     toggle_use_loss |-> toggle_use_loss, log_base |-> log_base, hit |-> hit,
     after |-> query.kind]

\* what a structural query leaves in the slots after a miss
StoreStructural(units, w, toggle_use_nonsmooth, toggle_use_loss, b) ==
    /\ cached_toggle_use_nonsmooth' = toggle_use_nonsmooth
    /\ cached_toggle_use_loss' = toggle_use_loss
    /\ cached_units' = units
    /\ cached_w' = w
    /\ cached_function' = <<Back(b.result)>>
    /\ cached_gradient' = PopBack(b.result)
    /\ UNCHANGED gammamleslot

\* an evidence query that kept its result in the one pair of key members the
\* header declares and in the structural vectors
StoreGammaMLE_Shared(units, w, toggle_use_nonsmooth, toggle_use_loss, b) ==
    /\ cached_toggle_use_nonsmooth' = toggle_use_nonsmooth
    /\ cached_toggle_use_loss' = toggle_use_loss
    /\ cached_units' = units
    /\ cached_w' = w
    /\ cached_function' = <<Back(b.result)>>
    /\ cached_gradient' = PopBack(b.result)
    /\ cached_function_gammamle' = <<Back(b.result)>>
    /\ cached_gradient_gammamle' = PopBack(b.result)
    /\ cached_key_gammamle' = <<toggle_use_nonsmooth, toggle_use_loss, units, w>>

\* what an evidence query leaves in the slots after a miss
StoreGammaMLE(units, w, toggle_use_nonsmooth, toggle_use_loss, b) ==
    /\ cached_function_gammamle' = <<Back(b.result)>>
    /\ cached_gradient_gammamle' = PopBack(b.result)
    /\ cached_key_gammamle' = <<toggle_use_nonsmooth, toggle_use_loss, units, w>>
    /\ UNCHANGED structuralslot

\* ComputeFunction and ComputeGradient: on a miss one COMPUTE_GRADIENT batch
\* fills both cached_function and cached_gradient
StructuralQuery(kind, units, w, toggle_use_nonsmooth, toggle_use_loss, log_base) ==
    /\ status = "ready"
    /\ IF StructuralHit(units, w, toggle_use_nonsmooth, toggle_use_loss)
       THEN /\ query' = QueryRecord(kind, units, w, toggle_use_nonsmooth,
                                    toggle_use_loss, log_base, TRUE)
            /\ answer' = IF kind = "function" THEN cached_function[1] ELSE cached_gradient
            /\ work' = NoWork
            /\ UNCHANGED <<status, structuralslot, gammamleslot>>
       ELSE \E b \in {DistributeComputation(units, "COMPUTE_GRADIENT",
                         QueryShared(w, toggle_use_nonsmooth, toggle_use_loss, log_base))} :
                /\ query' = QueryRecord(kind, units, w, toggle_use_nonsmooth,
                                        toggle_use_loss, log_base, FALSE)
                /\ work' = [batches |-> 1, passes |-> b.passes]
                /\ IF b.outcome = "returned"
                   THEN /\ StoreStructural(units, w, toggle_use_nonsmooth, toggle_use_loss, b)
                        /\ answer' = IF kind = "function"
                                     THEN Back(b.result) ELSE PopBack(b.result)
                        /\ UNCHANGED status
                   ELSE /\ status' = "fatal"
                        /\ answer' = <<>>
                        /\ UNCHANGED <<structuralslot, gammamleslot>>
    /\ UNCHANGED <<cfg, call, args, result, files, batchvars, auxvars>>

\* ComputeGammaMLEFunction and ComputeGammaMLEGradient for the evidence cell
\* (0, 0) of data source 0
GammaMLEQuery(kind, units, w, toggle_use_nonsmooth, toggle_use_loss, log_base) ==
    /\ status = "ready"
    /\ IF GammaMLEHit(units, w, toggle_use_nonsmooth, toggle_use_loss)
       THEN /\ query' = QueryRecord(kind, units, w, toggle_use_nonsmooth,
                                    toggle_use_loss, log_base, TRUE)
            /\ answer' = IF kind = "gammamle_function"
                         THEN cached_function_gammamle[1] ELSE cached_gradient_gammamle
            /\ work' = NoWork
            /\ UNCHANGED <<status, structuralslot, gammamleslot>>
       ELSE \E b \in {DistributeComputation(units, "COMPUTE_GAMMAMLE_GRADIENT",
                         QueryShared(w, toggle_use_nonsmooth, toggle_use_loss, log_base))} :
                /\ query' = QueryRecord(kind, units, w, toggle_use_nonsmooth,
                                        toggle_use_loss, log_base, FALSE)
                /\ work' = [batches |-> 1, passes |-> b.passes]
                /\ IF b.outcome = "returned"
                   THEN /\ StoreGammaMLE(units, w, toggle_use_nonsmooth, toggle_use_loss, b)
                        /\ answer' = IF kind = "gammamle_function"
                                     THEN Back(b.result) ELSE PopBack(b.result)
                        /\ UNCHANGED status
                   ELSE /\ status' = "fatal"
                        /\ answer' = <<>>
                        /\ UNCHANGED <<structuralslot, gammamleslot>>
    /\ UNCHANGED <<cfg, call, args, result, files, batchvars, auxvars>>

\* The points queried: each differs from the one before it in one component
\* of the key (the units, the parameter vector, one toggle).
QueryPoints ==
    { <<{1}, ZeroVec(NumLogicalParameters), FALSE, FALSE>>,
      <<Examples, ZeroVec(NumLogicalParameters), FALSE, FALSE>>,
      <<Examples, OnesVec(NumLogicalParameters), FALSE, FALSE>>,
      <<Examples, OnesVec(NumLogicalParameters), FALSE, TRUE>>,
      <<Examples, OnesVec(NumLogicalParameters), TRUE, FALSE>> }

ComputeFunction ==
    \E p \in QueryPoints, log_base \in LogBases :
        StructuralQuery("function", p[1], p[2], p[3], p[4], log_base)

ComputeGradient ==
    \E p \in QueryPoints, log_base \in LogBases :
        StructuralQuery("gradient", p[1], p[2], p[3], p[4], log_base)

ComputeGammaMLEFunction ==
    \E p \in QueryPoints :
        GammaMLEQuery("gammamle_function", p[1], p[2], p[3], p[4], 1)

ComputeGammaMLEGradient ==
    \E p \in QueryPoints :
        GammaMLEQuery("gammamle_gradient", p[1], p[2], p[3], p[4], 1)

InitW ==
    /\ cfg = DefaultConfig
    /\ InitEngine
    /\ InitBatchVars
    /\ InitWrapper
    /\ InitAux

NextW ==
    \/ ComputeFunction
    \/ ComputeGradient
    \/ ComputeGammaMLEFunction
    \/ ComputeGammaMLEGradient

SpecW == InitW /\ [][NextW]_vars

-----------------------------------------------------------------------------
(* Properties of the dispatcher (Spec) *)

ScoreComparing ==
    { "COMPUTE_FUNCTION", "COMPUTE_GRADIENT",
      "COMPUTE_MSTEP_FUNCTION", "COMPUTE_MSTEP_GRADIENT",
      "COMPUTE_FUNCTION_SE", "COMPUTE_GRADIENT_SE" }

GradientCommands ==
    { "COMPUTE_GRADIENT", "COMPUTE_MSTEP_GRADIENT", "COMPUTE_GRADIENT_SE" }

\* the last call compared a conditional score above the unconditional one
InconsistentScores ==
    \E k \in DOMAIN call.scores : call.scores[k][2] > call.scores[k][1]

\* the last call was stopped by a failed assertion and returned nothing
StoppedByAssertion ==
    status = "fatal" /\ call.outcome = "assert" /\ result = <<>>

\* C1 as stated: in every score-comparing command and for every example, a
\* conditional score above the unconditional score stops the command with a
\* fatal assertion and no result; every returned result comes from scores
\* with conditional <= unconditional.
C1_AssertionForEveryExample ==
    (args.command \in ScoreComparing /\ InconsistentScores) => StoppedByAssertion

\* C1 amended: the same, for the Function/Gradient and EM M-step commands
\* and for the structured-evidence commands on an example that has a
\* ground-truth structure.
C1_AssertionWhereScoresAreCompared ==
    (/\ args.command \in ScoreComparing
     /\ InconsistentScores
     /\ (args.command \in {"COMPUTE_FUNCTION_SE", "COMPUTE_GRADIENT_SE"}
            => descriptions[args.index].HasStruct))
        => StoppedByAssertion

C1_Witness ==
    /\ args.command \in {"COMPUTE_FUNCTION_SE", "COMPUTE_GRADIENT_SE"}
    /\ descriptions[args.index].HasStruct
    /\ InconsistentScores
    /\ StoppedByAssertion

\* the process was terminated after the parameter vector of the call was
\* written to neg_params.<base name of the example>
DumpedAndTerminated ==
    /\ status = "fatal"
    /\ call.outcome = "exit"
    /\ result = <<>>
    /\ call.file.name
         = <<"neg_params", GetBaseName(descriptions[args.index].input_filename)>>
    /\ call.file.content = args.shared.w
    /\ call.file \in files
    /\ \E i, j \in DOMAIN call.events :
          i < j /\ call.events[i] = "WriteToFile" /\ call.events[j] = "exit"

\* the last call reached its precision test with a final objective value
\* below -1e-6
ObjectiveBelowTolerance ==
    call.objective # <<>> /\ call.objective[1] < -PRECISION_TOL

\* C2 as stated: in every score-comparing command, a final objective value
\* below -1e-6 terminates the process, hands no result to the aggregator,
\* and the parameter vector has been written to a file named from the
\* example's base name before the termination.
C2_NegativeObjectiveTerminates ==
    (args.command \in ScoreComparing /\ ObjectiveBelowTolerance) => DumpedAndTerminated

\* C2 amended: the same for the Function/Gradient and EM M-step commands;
\* the structured-evidence commands test the structural part of the
\* objective only.
C2_NegativeObjectiveTerminatesFG ==
    (/\ args.command \in {"COMPUTE_FUNCTION", "COMPUTE_GRADIENT",
                          "COMPUTE_MSTEP_FUNCTION", "COMPUTE_MSTEP_GRADIENT"}
     /\ ObjectiveBelowTolerance)
        => DumpedAndTerminated

C2_Witness ==
    /\ args.command \in {"COMPUTE_FUNCTION", "COMPUTE_GRADIENT"}
    /\ ObjectiveBelowTolerance
    /\ DumpedAndTerminated

\* length of the result of a score-comparing command
NormalLength(command) ==
    IF command \in GradientCommands THEN NumLogicalParameters + 1 ELSE 1

\* the first inference passes of the last call reported a conditional score
\* below the sentinel NEG_INF/2 that does not exceed the unconditional score
\* where the command compares the two
SentinelReported ==
    /\ call.scores # <<>>
    /\ 2 * call.scores[1][2] < NEG_INF
    /\ \/ call.scores[1][2] <= call.scores[1][1]
       \/ /\ args.command \in {"COMPUTE_FUNCTION_SE", "COMPUTE_GRADIENT_SE"}
          /\ ~descriptions[args.index].HasStruct

WithinTolerance ==
    /\ call.scores # <<>>
    /\ call.scores[1][1] - call.scores[1][2] < 0
    /\ call.scores[1][1] - call.scores[1][2] >= -PRECISION_TOL

\* C4 as stated: when unconditional minus conditional score lies in
\* [-1e-6, 0), the command does not abort, writes no diagnostic file, and the
\* function value it returns is exactly 0.
C4_RoundoffIsClamped ==
    (args.command \in ScoreComparing /\ WithinTolerance)
        => /\ status = "returned"
           /\ call.file = NoFile
           /\ Back(result) = 0

\* C5: every function value the Function/Gradient command returns (the last
\* entry of its result) is >= 0.
C5_FunctionValueNonNegative ==
    (args.command \in {"COMPUTE_FUNCTION", "COMPUTE_GRADIENT"} /\ status = "returned")
        => Back(result) >= 0

C5_Witness ==
    /\ args.command \in {"COMPUTE_FUNCTION", "COMPUTE_GRADIENT"}
    /\ status = "returned"
    /\ call.path = "clamp"
    /\ call.objective[1] < 0

\* C6: a command tag that is none of the sixteen commands stops the
\* dispatcher with a fatal assertion, with no result and no operation of the
\* inference engine; a recognised tag never reaches the default branch.
C6_UnknownCommandIsFatal ==
    /\ (args.command \notin Commands \cup {"none"})
          => /\ StoppedByAssertion
             /\ call.passes = 0
             /\ ~call.loads
    /\ (args.command \in Commands)
          => \A k \in DOMAIN call.events : call.events[k] # "Unknown command type."

C6_Witness ==
    /\ args.command \in UnknownCommands
    /\ StoppedByAssertion
    /\ call.events = <<"Unknown command type.">>

-----------------------------------------------------------------------------
(* Properties of the caching oracle (SpecW) *)

StructuralKinds == {"function", "gradient"}

GammaMLEKinds == {"gammamle_function", "gammamle_gradient"}

\* one dispatcher batch run for the arguments of the query q alone
FreshBatch(q) ==
    DistributeComputation(q.units,
        CASE q.kind = "function" -> "COMPUTE_FUNCTION"
          [] q.kind = "gradient" -> "COMPUTE_GRADIENT"
          [] q.kind = "gammamle_function" -> "COMPUTE_GAMMAMLE_FUNCTION"
          [] OTHER -> "COMPUTE_GAMMAMLE_GRADIENT",
        QueryShared(q.w, q.toggle_use_nonsmooth, q.toggle_use_loss, q.log_base))

\* what a fresh computation returns for the query q
Fresh(q) ==
    IF q.kind \in {"function", "gammamle_function"}
    THEN Back(FreshBatch(q).result)
    ELSE PopBack(FreshBatch(q).result)

SameKey(q1, q2) ==
    /\ q1.units = q2.units
    /\ q1.w = q2.w
    /\ q1.toggle_use_nonsmooth = q2.toggle_use_nonsmooth
    /\ q1.toggle_use_loss = q2.toggle_use_loss

\* C7 as stated: a ComputeFunction or ComputeGradient query answered from
\* the cache returns exactly what a fresh computation with the query's own
\* arguments returns.
C7_HitEqualsFresh ==
    (query.kind \in StructuralKinds /\ query.hit /\ status = "ready")
        => answer = Fresh(query)

\* C8 as stated: ComputeFunction and then at once ComputeGradient with the
\* same arguments return what two fresh computations return, and run
\* strictly fewer dispatcher batches and inference passes than those two.
C8_FunctionThenGradient ==
    [][(/\ query.kind = "function"
        /\ query'.kind = "gradient"
        /\ SameKey(query, query')
        /\ query.log_base = query'.log_base
        /\ status' = "ready")
          => /\ answer = Fresh(query)
             /\ answer' = Fresh(query')
             /\ work.batches + work'.batches < 2
             /\ work.passes + work'.passes
                  < FreshBatch(query).passes + FreshBatch(query').passes]_vars

-----------------------------------------------------------------------------
(* Properties of the batch reduction (SpecBatch) *)

\* C10: for the sparse commands, the elementwise sum over the units processed
\* has the length of the corpus, holds at the position of each unit that
\* unit's own value, and 0 at every other position.
C10_SparseSum ==
    (status \in {"working", "reduced"} /\ acc # <<>>)
        => /\ Len(acc) = NumExamples
           /\ \A i \in Examples :
                 acc[i] = IF i \in batch.units \ pending THEN own[i] ELSE 0

C10_Witness ==
    /\ status = "reduced"
    /\ Cardinality(batch.units) >= 2
    /\ \A i \in batch.units : acc[i] # 0
    /\ \E i \in Examples : i \notin batch.units

-----------------------------------------------------------------------------
(* Properties of the single commands (Spec) *)

\* C11: CheckParsability on example i returns a vector of corpus length in
\* which entry i is 1 if the Viterbi score at all-zero weights is >= NEG_INF/2
\* and 0 otherwise, and every other entry is 0, whatever the vector held on
\* entry.
C11_ParsabilityIndicator ==
    (args.command = "CHECK_PARSABILITY" /\ status # "ready")
        => /\ status = "returned"
           /\ args.loaded = <<[i \in 1..NumLogicalParameters |-> 0]>>
           /\ Len(result) = NumExamples
           /\ \A i \in 1..NumExamples :
                 result[i] = IF i = args.index
                             THEN (IF 2 * args.e.v >= NEG_INF THEN 1 ELSE 0)
                             ELSE 0

C11_Witness ==
    /\ args.command = "CHECK_PARSABILITY"
    /\ status = "returned"
    /\ args.res # <<>>
    /\ 2 * args.e.v = NEG_INF
    /\ result[args.index] = 1

\* C12 as stated: a Hessian-vector product requested while the objective is
\* non-smooth (the non-smooth toggle set, or Viterbi parsing in force) stops
\* with a fatal error before any inference pass and returns no result.
C12_HVNeverNonsmooth ==
    (args.command = "COMPUTE_HV" /\ (args.shared.use_nonsmooth \/ cfg.viterbi_parsing))
        => /\ status = "fatal"
           /\ call.outcome = "error"
           /\ call.passes = 0
           /\ result = <<>>

\* C13: ComputeLoss invoked with the loss toggle off stops with a fatal error
\* and returns no loss value.
C13_LossRequiresToggle ==
    (args.command = "COMPUTE_LOSS" /\ ~args.shared.use_loss)
        => /\ status = "fatal"
           /\ call.outcome = "error"
           /\ result = <<>>

C13_Witness ==
    /\ args.command = "COMPUTE_LOSS"
    /\ ~args.shared.use_loss
    /\ status = "fatal"
    /\ call.events = <<"Must be using loss function in order to compute loss.">>

C16_PredictReturnsNothing ==
    (args.command = "PREDICT" /\ status = "returned") => result = <<>>

C16_Witness ==
    /\ args.command = "PREDICT"
    /\ status = "returned"
    /\ args.res # <<>>
    /\ call.path = "partition_function_only"
    /\ args.opts.use_evidence
    /\ result = <<>>

\* C20: the Hessian-vector-product command returns
\* (R(w + eps*v) - R(w - eps*v)) / (2*eps), R being the Function/Gradient
\* result with gradient of the same example; the two evaluations load
\* (w + eps*v) * log_base and (w - eps*v) * log_base and share the rest.
C20_CentralDifference ==
    (args.command = "COMPUTE_HV" /\ status = "returned")
        => LET w == args.shared.w
               v == args.shared.v
               n == NumLogicalParameters
               at(sign) == [i \in 1..n |-> w[i] + sign * EPSILON * v[i]]
               R(sign, answers) ==
                   ComputeFunctionAndGradient(args.index,
                                              [args.shared EXCEPT !.w = at(sign)],
                                              answers, TRUE).result
               plus == R(1, args.e.plus)
               minus == R(-1, args.e.minus)
           IN  /\ Len(result) = n + 1
               /\ \A i \in 1..(n + 1) :
                     result[i] = (plus[i] - minus[i]) \div (2 * EPSILON)
               /\ args.loaded = <<[i \in 1..n |-> at(1)[i] * args.shared.log_base],
                                  [i \in 1..n |-> at(-1)[i] * args.shared.log_base]>>

C20_Witness ==
    /\ args.command = "COMPUTE_HV"
    /\ status = "returned"
    /\ args.shared.w # ZeroVec(NumLogicalParameters)
    /\ args.shared.v # ZeroVec(NumLogicalParameters)
    /\ args.shared.log_base = 2
    /\ \E i \in 1..NumLogicalParameters : result[i] # 0

-----------------------------------------------------------------------------
(* MakeOutputFilename as a function of its arguments (SpecNames)            *)

\* the arguments of a call: corpora of one and of two examples; input files
\* in two directories; no destination, a file name, a name in a directory, a
\* name two levels down; gamma in units of 5e-7
NamingInputs ==
    {[NoNaming EXCEPT !.size = n, !.input_filename = f, !.output_destination = d,
                      !.cross_validation = cv, !.gamma = g] :
        n \in 1..2,
        f \in {[dir |-> dn, base |-> b] : dn \in {"train", "test"}, b \in 1..3},
        d \in Destinations \cup {<<"top", "dir", "out">>},
        cv \in BOOLEAN,
        g \in {0, 1, 2, 5}}

InitNames ==
    /\ cfg = DefaultConfig
    /\ InitEngine
    /\ InitBatchVars
    /\ InitWrapper
    /\ opt = NoOpt
    /\ naming \in NamingInputs

MakeName ==
    /\ ~naming.made
    /\ naming' = [naming EXCEPT
                    !.made = TRUE,
                    !.name = MakeOutputFilename(naming.size, naming.input_filename,
                                                naming.output_destination,
                                                naming.cross_validation, naming.gamma)]
    /\ UNCHANGED <<cfg, enginevars, batchvars, wrappervars, opt>>

NextNames == MakeName

SpecNames == InitNames /\ [][NextNames]_vars

\* C17: the derived name follows the scheme: an empty destination gives the
\* empty name; one example without cross-validation gives the destination
\* itself; several examples give the input's base name inside the destination;
\* cross-validation inserts the component <destination base>.gamma=<gamma>
\* (gamma printed with six decimals), which holds the per-input file when
\* there are several examples.  Nothing else (the input's directory) matters.
C17_OutputFilenameScheme ==
    naming.made =>
        LET dest == naming.output_destination
            input == naming.input_filename.base
            sweep == <<(<<dest[Len(dest)]>>), "gamma",
                       IF naming.gamma % 2 = 0 THEN naming.gamma \div 2
                                               ELSE (naming.gamma + 1) \div 2>>
            many == naming.size > 1
            cv == naming.cross_validation
        IN  /\ dest = <<>> => naming.name = <<>>
            /\ dest # <<>> /\ ~many /\ ~cv => naming.name = dest
            /\ dest # <<>> /\ many /\ ~cv =>
                   /\ Len(naming.name) = Len(dest) + 1
                   /\ SubSeq(naming.name, 1, Len(dest)) = dest
                   /\ naming.name[Len(dest) + 1] = input
            /\ dest # <<>> /\ ~many /\ cv =>
                   /\ Len(naming.name) = Len(dest) + 1
                   /\ SubSeq(naming.name, 1, Len(dest)) = dest
                   /\ naming.name[Len(dest) + 1] = sweep
            /\ dest # <<>> /\ many /\ cv =>
                   /\ Len(naming.name) = Len(dest) + 2
                   /\ SubSeq(naming.name, 1, Len(dest)) = dest
                   /\ naming.name[Len(dest) + 1] = sweep
                   /\ naming.name[Len(dest) + 2] = input

C17_Witness ==
    /\ naming.made
    /\ naming.size > 1
    /\ naming.cross_validation
    /\ naming.gamma = 5
    /\ naming.output_destination = <<"dir", "out">>
    /\ naming.input_filename = [dir |-> "test", base |-> 3]
    /\ Len(naming.name) = 4

-----------------------------------------------------------------------------
(* The inner optimizers: InnerOptimizationWrapperEM and                     *)
(* InnerOptimizationWrapperStochasticGradient (SpecOpt)                     *)

\* iteration budget of the stochastic-gradient optimizer (int MAX_ITERATIONS)
MAX_ITERATIONS == 3

\* the model covers this many externally driven OneStep calls
MaxOneSteps == 2

RECURSIVE Pow(_, _)
Pow(b, n) == IF n = 0 THEN 1 ELSE b * Pow(b, n - 1)

\* stepsize = s0 / (1+iter)^s1
StepSize_Constant(s0, s1, iter) == s0

StepSize(s0, s1, iter) == s0 \div Pow(1 + iter, s1)

\* starting points x0 and the directions an iteration may move along; the zero
\* direction is an iterate that has converged
StartingPoints == {<<0, 0>>, <<6, -6>>}

Directions == {<<0, 0>>, <<1, -1>>}

\* function values the oracle reports
FunctionValues == {0, 5}

\* an optimizer after construction: its kind, its schedule, the caller's x0
Constructed(kind, s0, s1, x0) ==
    [NoOpt EXCEPT !.kind = kind, !.s0 = s0, !.s1 = s1, !.x0 = x0, !.start = x0]

Optimizers ==
    {Constructed("EM", 0, 0, x0) : x0 \in StartingPoints}
    \cup {Constructed("StochasticGradient", s0, s1, x0) :
            s0 \in {36, 72}, s1 \in 0..2, x0 \in StartingPoints}

InitOpt ==
    /\ cfg = DefaultConfig
    /\ InitEngine
    /\ InitBatchVars
    /\ InitWrapper
    /\ naming = NoNaming
    /\ opt \in Optimizers

\* InnerOptimizationWrapperEM::Minimize with one EM iteration in place of Error
EM_Minimize_OneIteration(o) ==
    [o EXCEPT !.last = "Minimize", !.status = "returned", !.iteration = @ + 1,
              !.x0 = VecAdd(o.x0, <<1, -1>>), !.value = <<0>>]

\* InnerOptimizationWrapperEM::Minimize: Error("Not implemented")
EM_Minimize(o) == [o EXCEPT !.last = "Minimize", !.status = "fatal"]

\* InnerOptimizationWrapperEM::OneStep(x0, iter, config_params): one EM
\* iteration, moving x0 along d and returning the function value f
EM_OneStep(o, d, f) ==
    [o EXCEPT !.last = "OneStep", !.iteration = @ + 1,
              !.x0 = VecAdd(o.x0, d), !.value = <<f>>]

MinimizeEM ==
    /\ opt.kind = "EM"
    /\ opt.status = "idle"
    /\ opt' = EM_Minimize(opt)
    /\ UNCHANGED <<cfg, enginevars, batchvars, wrappervars, naming>>

OneStepEM ==
    /\ opt.kind = "EM"
    /\ opt.status = "idle"
    /\ opt.iteration < MaxOneSteps
    /\ \E d \in Directions, f \in FunctionValues : opt' = EM_OneStep(opt, d, f)
    /\ UNCHANGED <<cfg, enginevars, batchvars, wrappervars, naming>>

\* InnerOptimizationWrapperStochasticGradient::Minimize, entry
MinimizeSG ==
    /\ opt.kind = "StochasticGradient"
    /\ opt.status = "idle"
    /\ opt' = [opt EXCEPT !.last = "Minimize", !.status = "running", !.iteration = 0]
    /\ UNCHANGED <<cfg, enginevars, batchvars, wrappervars, naming>>

\* one mini-batch iteration: x0 -= step * g, with g the mini-batch gradient
SGIterate ==
    /\ opt.kind = "StochasticGradient"
    /\ opt.status = "running"
    /\ opt.iteration < MAX_ITERATIONS
    /\ \E g \in Directions :
          LET step == StepSize(opt.s0, opt.s1, opt.iteration)
          IN  opt' = [opt EXCEPT !.x0 = VecSub(opt.x0, VecScale(g, step)),
                                 !.steps = Append(@, step),
                                 !.gradients = Append(@, g),
                                 !.iteration = @ + 1]
    /\ UNCHANGED <<cfg, enginevars, batchvars, wrappervars, naming>>

\* the oracle stops the process on a fatal numerical error during an iteration
SGAbort ==
    /\ opt.kind = "StochasticGradient"
    /\ opt.status = "running"
    /\ opt.iteration < MAX_ITERATIONS
    /\ opt' = [opt EXCEPT !.status = "fatal"]
    /\ UNCHANGED <<cfg, enginevars, batchvars, wrappervars, naming>>

\* the iteration budget is used up: Minimize returns the function value
SGReturn ==
    /\ opt.kind = "StochasticGradient"
    /\ opt.status = "running"
    /\ opt.iteration >= MAX_ITERATIONS
    /\ \E f \in FunctionValues : opt' = [opt EXCEPT !.status = "returned", !.value = <<f>>]
    /\ UNCHANGED <<cfg, enginevars, batchvars, wrappervars, naming>>

NextOpt ==
    \/ MinimizeEM
    \/ OneStepEM
    \/ MinimizeSG
    \/ SGIterate
    \/ SGAbort
    \/ SGReturn

\* once Minimize has been entered its loop keeps running: the optimizer is
\* single-threaded and no oracle call blocks
SpecOpt ==
    /\ InitOpt
    /\ [][NextOpt]_vars
    /\ WF_vars(SGIterate)
    /\ WF_vars(SGReturn)

\* C18: Minimize on the EM optimizer stops the process: it performs no EM
\* iteration, leaves the parameter vector as given and hands no function value
\* to the caller (the optimizer never gets to "returned"); the iteration count
\* of the EM optimizer changes only in OneStep calls.
C18_EMMinimizeIsFatal ==
    [][opt.kind = "EM" =>
          /\ opt'.last = "Minimize" =>
                 /\ opt'.status = "fatal"
                 /\ opt'.x0 = opt.x0
                 /\ opt'.iteration = opt.iteration
                 /\ opt'.value = opt.value
          /\ opt'.status # "returned"
          /\ (opt'.iteration # opt.iteration \/ opt'.x0 # opt.x0) =>
                 opt'.last = "OneStep"]_vars

\* Minimize called after an OneStep that moved x0
C18_Witness ==
    /\ opt.kind = "EM"
    /\ opt.last = "Minimize"
    /\ opt.status = "fatal"
    /\ opt.iteration = 1
    /\ opt.x0 # opt.start
    /\ opt.value = <<5>>

\* the steps of the schedule s0 / (1+t)^s1 for t = 0 .. n-1
Schedule(n) ==
    [k \in 1..n |-> opt.s0 \div Pow(k, opt.s1)]

\* C19: Minimize on the stochastic-gradient optimizer, once entered, comes to
\* an end; it returns only after exactly MAX_ITERATIONS iterations, whatever
\* the starting point and whether or not the gradients had vanished; and
\* iteration t uses the step s0 / (1+t)^s1.
C19_SGRunsItsBudget ==
    /\ [](opt.kind = "StochasticGradient" =>
             /\ opt.steps = Schedule(opt.iteration)
             /\ Len(opt.gradients) = opt.iteration
             /\ opt.iteration <= MAX_ITERATIONS
             /\ opt.status = "returned" => opt.iteration = MAX_ITERATIONS)
    /\ (opt.kind = "StochasticGradient" /\ opt.status = "running")
          ~> (opt.status \in {"returned", "fatal"})

\* a run that had converged at its starting point and still used its budget
C19_Witness ==
    /\ opt.kind = "StochasticGradient"
    /\ opt.status = "returned"
    /\ opt.iteration = MAX_ITERATIONS
    /\ opt.s1 = 2
    /\ opt.x0 = opt.start
    /\ \A k \in 1..Len(opt.gradients) : opt.gradients[k] = <<0, 0>>

-----------------------------------------------------------------------------
(* Properties of the EM-family commands (Spec)                              *)

\* the last call was a Gamma sufficient-statistics call that returned for an
\* example with evidence for the requested data source
GammaStatsReturned ==
    /\ args.command = "COMPUTE_GAMMAMLE_GRADIENT"
    /\ status = "returned"
    /\ args.shared.which_data \in descriptions[args.index].HasEvidence

\* C21 as stated: the result holds the sum of d divided by scale and the sum of
\* log d reduced by N * log(scale), N being the example count of the same
\* result, with and without a known structure (every entry times the weight).
C21_RebasedByCount ==
    GammaStatsReturned =>
        LET weight == descriptions[args.index].weight
            scale == args.shared.evidence_data_scale
        IN  /\ result[1] = weight * (args.e.stats1[1] \div scale)
            /\ result[3] = weight * args.e.n1
            /\ result[2] = weight * args.e.stats1[2] - result[3] * Log(scale)

\* C21, amended: the sum of log d is reduced by N * log(scale) when the
\* structure is known, and by ssq * log(scale) when it is not, ssq being the
\* third expected statistic, which is not the count that is returned.
C21_RebasedByCountOrSsq ==
    GammaStatsReturned =>
        LET weight == descriptions[args.index].weight
            scale == args.shared.evidence_data_scale
            reduced == IF descriptions[args.index].HasStruct
                       THEN args.e.n1 ELSE args.e.stats1[3]
        IN  /\ result[1] = weight * (args.e.stats1[1] \div scale)
            /\ result[3] = weight * args.e.n1
            /\ result[2] = weight * (args.e.stats1[2] - reduced * Log(scale))

\* no known structure, scale 2, a count that differs from the third statistic
C21_Witness ==
    /\ GammaStatsReturned
    /\ ~descriptions[args.index].HasStruct
    /\ args.shared.evidence_data_scale = 2
    /\ args.e.stats1 = <<6, 2, 3>>
    /\ args.e.n1 = 4
    /\ result[1] = 3 * descriptions[args.index].weight
    /\ result[2] = (2 - 3) * descriptions[args.index].weight

\* C22: in the zero-valued-observation branch the returned sum of d, sum of
\* log d and count are those of the first query (rebased as in C21), and the
\* log-likelihood is computed with the sum of log d and the count of the
\* second, zero-excluding query (and the sum of d of the first).
C22_ZeroBranchRecomputesLikelihoodOnly ==
    (GammaStatsReturned /\ args.shared.areZeros) =>
        LET weight == descriptions[args.index].weight
            scale == args.shared.evidence_data_scale
            w == args.shared.w
            current_k == Exp(w[EvidenceIndex(0, args.shared.id_base,
                                             args.shared.id_pairing,
                                             args.shared.which_data)])
            log_theta == w[EvidenceIndex(1, args.shared.id_base,
                                         args.shared.id_pairing,
                                         args.shared.which_data)]
            reduced == IF descriptions[args.index].HasStruct
                       THEN args.e.n1 ELSE args.e.stats1[3]
        IN  /\ result[1] = weight * (args.e.stats1[1] \div scale)
            /\ result[2] = weight * (args.e.stats1[2] - reduced * Log(scale))
            /\ result[3] = weight * args.e.n1
            /\ result[4] = weight * GammaLL(current_k, log_theta, args.e.stats1[1],
                                            args.e.stats2[2], args.e.n2)

C22_Witness ==
    /\ GammaStatsReturned
    /\ args.shared.areZeros
    /\ call.path = "zeros"
    /\ args.e.stats1 = <<0, -7, 3>>
    /\ args.e.stats2 = <<6, 1, 2>>
    /\ args.e.n2 = 2
    /\ args.shared.w = ShapeDown

\* the last call was an EM M-step command that reached its conditional pass
MStepReachedConditional ==
    /\ args.command \in {"COMPUTE_MSTEP_FUNCTION", "COMPUTE_MSTEP_GRADIENT"}
    /\ call.conditional # <<>>

\* C23: in the EM M-step command the conditional pass depends on the example
\* alone.  With a known structure the engine is clamped to it and the
\* conditional score is the engine's log-partition value; without one no
\* constraint is installed, the conditional counts are the expected
\* sufficient statistics and the conditional score is dot(w, ESS).  The
\* returned vector on the normal path is built from these.
C23_MStepConditionalByExample ==
    MStepReachedConditional =>
        LET known == descriptions[args.index].HasStruct
            ess == args.e.ccounts
            dot == SumOver(1..NumLogicalParameters,
                           [i \in 1..NumLogicalParameters |-> args.shared.w[i] * ess[i]])
            score == IF known THEN args.e.c ELSE dot
            need == args.command = "COMPUTE_MSTEP_GRADIENT"
            weight == descriptions[args.index].weight
        IN  /\ call.conditional = <<IF known THEN "constrained" ELSE "ESS">>
            /\ call.scores = <<(<<args.e.u, score>>)>>
            /\ call.path = "normal" =>
                  /\ Back(result) = (weight * (args.e.u - score)) \div args.shared.log_base
                  /\ need => \A i \in 1..NumLogicalParameters :
                                result[i] = weight * (args.e.ucounts[i] - args.e.ccounts[i])

\* a gradient returned for an example without a known structure, with a
\* nonzero dot(w, ESS)
C23_Witness ==
    /\ MStepReachedConditional
    /\ args.command = "COMPUTE_MSTEP_GRADIENT"
    /\ ~descriptions[args.index].HasStruct
    /\ call.path = "normal"
    /\ call.conditional = <<"ESS">>
    /\ call.scores[1][2] < 0
    /\ args.shared.log_base = 2

\* the last call was a Structured-evidence command that returned
SEReturned ==
    /\ args.command \in {"COMPUTE_FUNCTION_SE", "COMPUTE_GRADIENT_SE"}
    /\ status = "returned"

\* what the last command returns when the data hyperparameter is 1
AtUnitHyperparam ==
    DoComputation(args.res, args.command, args.index,
                  [args.shared EXCEPT !.hyperparam_data = 1], args.e, args.opts)

\* C24: the Structured-evidence result of an example without a ground-truth
\* structure is the weight- and log_base-scaled result times the data
\* hyperparameter; the result of an example with one is the same for every
\* value of the hyperparameter.
C24_HyperparamForEvidenceOnly ==
    SEReturned =>
        LET unit == AtUnitHyperparam
        IN  /\ unit.outcome = "returned"
            /\ IF descriptions[args.index].HasStruct
               THEN result = unit.result
               ELSE result = VecScale(unit.result, args.shared.hyperparam_data)

C24_Witness ==
    /\ SEReturned
    /\ args.command = "COMPUTE_GRADIENT_SE"
    /\ ~descriptions[args.index].HasStruct
    /\ args.shared.hyperparam_data = 2
    /\ args.shared.log_base = 2
    /\ call.path = "normal"
    /\ Back(result) # 0
    /\ result[1] # 0

-----------------------------------------------------------------------------
(* Properties of the results of all commands (Spec)                         *)

\* the length of the result of each command, n the number of logical parameters
ResultLength(command) ==
    CASE command \in {"COMPUTE_FUNCTION", "COMPUTE_MSTEP_FUNCTION",
                      "COMPUTE_GAMMAMLE_FUNCTION", "COMPUTE_FUNCTION_SE",
                      "COMPUTE_LOSS"} -> 1
      [] command \in {"COMPUTE_GRADIENT", "COMPUTE_MSTEP_GRADIENT",
                      "COMPUTE_GRADIENT_SE", "COMPUTE_HV"} -> NumLogicalParameters + 1
      [] command = "COMPUTE_GAMMAMLE_GRADIENT" -> 4
      [] command = "COMPUTE_GAMMAMLE_SCALING_FACTOR" -> 2
      [] command \in {"CHECK_PARSABILITY", "COMPUTE_SOLUTION_NORM_BOUND",
                      "COMPUTE_GRADIENT_NORM_BOUND", "CHECK_ZEROS_IN_DATA"} -> NumExamples
      [] command = "PREDICT" -> 0

\* C25: whenever a command returns, for whichever example and on whichever
\* path (normal, bad parse, roundoff clamp, no evidence), its result has the
\* length fixed for the command: 1 for the function commands and the loss,
\* n+1 for the gradient commands and the Hessian-vector product, 4 for the
\* Gamma-MLE gradient, 2 for the scaling-factor statistics, the corpus size
\* for the sparse commands, 0 for Predict.
C25_ResultLengthFixedPerCommand ==
    (status = "returned" /\ args.command \in Commands)
        => Len(result) = ResultLength(args.command)

\* the scaling-factor statistics of an example without evidence
C25_Witness ==
    /\ status = "returned"
    /\ args.command = "COMPUTE_GAMMAMLE_SCALING_FACTOR"
    /\ call.path = "noevidence"
    /\ result = <<0, 0>>

\* the function command paired with a gradient command
FunctionCommandOf(command) ==
    CASE command = "COMPUTE_GRADIENT" -> "COMPUTE_FUNCTION"
      [] command = "COMPUTE_MSTEP_GRADIENT" -> "COMPUTE_MSTEP_FUNCTION"
      [] command = "COMPUTE_GAMMAMLE_GRADIENT" -> "COMPUTE_GAMMAMLE_FUNCTION"
      [] command = "COMPUTE_GRADIENT_SE" -> "COMPUTE_FUNCTION_SE"

PairedGradientCommands ==
    {"COMPUTE_GRADIENT", "COMPUTE_MSTEP_GRADIENT", "COMPUTE_GAMMAMLE_GRADIENT",
     "COMPUTE_GRADIENT_SE"}

\* the function command on the example, parameters, toggles and engine
\* answers of the last call
FunctionOnlyPass ==
    DoComputation(args.res, FunctionCommandOf(args.command), args.index,
                  args.shared, args.e, args.opts)

\* C26: when a gradient command of one of the four pairs returns, the
\* function command on the same example, parameters and toggles, with the
\* same answers of the engine, returns too, and its single entry is the last
\* entry of the gradient command's result.
C26_GradientCarriesFunctionValue ==
    (args.command \in PairedGradientCommands /\ status = "returned")
        => LET function == FunctionOnlyPass
           IN  /\ function.outcome = "returned"
               /\ function.result = <<Back(result)>>

\* a Structured-evidence gradient whose function value includes the
\* log-likelihood of the evidence
C26_Witness ==
    /\ args.command = "COMPUTE_GRADIENT_SE"
    /\ status = "returned"
    /\ call.path = "normal"
    /\ descriptions[args.index].HasStruct
    /\ \E cell \in Cells : args.e.stats[cell] = <<6, 2, 3>>
    /\ args.shared.log_base = 1
    /\ Back(result) # descriptions[args.index].weight * (args.e.u - args.e.c)

\* the precision block of the last Function/Gradient call tested a value of
\* result.back() in [-1e-6, 0)
ClampApplies ==
    /\ args.command \in {"COMPUTE_FUNCTION", "COMPUTE_GRADIENT"}
    /\ call.objective # <<>>
    /\ call.objective[1] < 0
    /\ call.objective[1] >= -PRECISION_TOL

\* C27: when the roundoff clamp applies in Function/Gradient, the command
\* returns a vector of the normal length whose entries are all 0, the
\* gradient entries included, whatever the weight and log_base.
C27_ClampZeroesGradient ==
    ClampApplies =>
        /\ status = "returned"
        /\ Len(result) = (IF args.command = "COMPUTE_GRADIENT"
                          THEN NumLogicalParameters + 1 ELSE 1)
        /\ \A i \in 1..Len(result) : result[i] = 0

\* a clamped gradient call whose count difference was not zero
C27_Witness ==
    /\ ClampApplies
    /\ args.command = "COMPUTE_GRADIENT"
    /\ status = "returned"
    /\ args.e.ucounts # args.e.ccounts
    /\ args.e.ucounts3 = args.e.ccounts
    /\ descriptions[args.index].weight = 2
    /\ args.shared.log_base = 2

-----------------------------------------------------------------------------
(* The EM-family commands under the non-smooth toggle (Spec)                *)

EMFamily ==
    {"COMPUTE_MSTEP_FUNCTION", "COMPUTE_MSTEP_GRADIENT",
     "COMPUTE_GAMMAMLE_FUNCTION", "COMPUTE_GAMMAMLE_GRADIENT",
     "COMPUTE_FUNCTION_SE", "COMPUTE_GRADIENT_SE"}

\* the last call was an EM-family command with shared.use_nonsmooth set
EMCallNonsmooth ==
    /\ args.command \in EMFamily
    /\ args.shared.use_nonsmooth

\* a Gamma-MLE call on an example without evidence for the data source
GammaWithoutEvidence ==
    /\ args.command \in {"COMPUTE_GAMMAMLE_FUNCTION", "COMPUTE_GAMMAMLE_GRADIENT"}
    /\ args.shared.which_data \notin descriptions[args.index].HasEvidence

\* C28 as stated: an EM-family command with the non-smooth toggle set never
\* returns; it is stopped before any inference pass.
C28_EMNonsmoothAlwaysFatal ==
    EMCallNonsmooth =>
        /\ status = "fatal"
        /\ call.passes = 0

\* C28, amended: with the non-smooth toggle set the EM-family commands are
\* stopped by Error before any inference pass, except the Gamma-MLE commands
\* on an example without evidence for the requested data source, which
\* return their all-zero result without touching the engine.
C28_EMNonsmoothFatalWhereEngineIsUsed ==
    EMCallNonsmooth =>
        IF GammaWithoutEvidence
        THEN /\ status = "returned"
             /\ result = ZeroVec(IF args.command = "COMPUTE_GAMMAMLE_GRADIENT" THEN 4 ELSE 1)
             /\ call.passes = 0
             /\ ~call.loads
        ELSE /\ status = "fatal"
             /\ call.outcome = "error"
             /\ call.passes = 0

\* a Gamma-MLE gradient that returns under the toggle: no evidence for the
\* data source
C28_Witness ==
    /\ EMCallNonsmooth
    /\ GammaWithoutEvidence
    /\ args.command = "COMPUTE_GAMMAMLE_GRADIENT"
    /\ ~cfg.HAMMING_LOSS
    /\ status = "returned"
    /\ result = <<0, 0, 0, 0>>

-----------------------------------------------------------------------------
(* The Structured-evidence gradient (Spec)                                  *)

\* the last call was a Structured-evidence gradient that returned on the
\* normal path: its entries are those computed, times the example's weight
\* and, without a known structure, the data hyperparameter
SEGradientReturned ==
    /\ args.command = "COMPUTE_GRADIENT_SE"
    /\ status = "returned"
    /\ call.path = "normal"

SEFactor ==
    descriptions[args.index].weight
        * (IF descriptions[args.index].HasStruct THEN 1 ELSE args.shared.hyperparam_data)

\* the parameter indices of the evidence cells
EvidenceIndices ==
    {EvidenceIndex(p, cell[2], cell[3], cell[1]) : p \in {0, 1}, cell \in Cells}

\* C29: in the Structured-evidence gradient the entries at the shape and
\* scale indices of every evidence cell hold the closed-form Gamma gradient
\* alone, -(sum_log_d - N*log_theta - N*Psi(k))*k and -(sum_d/theta - N*k),
\* computed from the cell's statistics (0 without evidence for the data
\* source); every other gradient entry is the unconditional minus the
\* conditional count.
C29_EvidenceCellsHoldGammaGradient ==
    SEGradientReturned =>
        /\ \A cell \in Cells :
              LET st == IF cell[1] \in descriptions[args.index].HasEvidence
                        THEN args.e.stats[cell] ELSE <<0, 0, 0>>
                  index_k == EvidenceIndex(0, cell[2], cell[3], cell[1])
                  index_theta == EvidenceIndex(1, cell[2], cell[3], cell[1])
                  k == Exp(args.shared.w[index_k])
                  log_theta == args.shared.w[index_theta]
              IN  /\ result[index_k]
                        = SEFactor * (0 - (st[2] - st[3] * log_theta - st[3] * Psi(k)) * k)
                  /\ result[index_theta]
                        = SEFactor * (0 - (st[1] * Exp(0 - log_theta) - st[3] * k))
                  /\ cell[1] \notin descriptions[args.index].HasEvidence
                        => result[index_k] = 0 /\ result[index_theta] = 0
        /\ \A i \in (1..NumLogicalParameters) \ EvidenceIndices :
              result[i] = SEFactor * (args.e.ucounts[i] - args.e.ccounts[i])

\* a gradient whose count difference at the evidence indices is not zero and
\* whose Gamma gradient is not zero either
C29_Witness ==
    /\ SEGradientReturned
    /\ args.e.ucounts = OnesVec(NumLogicalParameters)
    /\ args.e.ccounts = ZeroVec(NumLogicalParameters)
    /\ \E cell \in Cells :
          /\ args.e.stats[cell] = <<6, 2, 3>>
          /\ result[EvidenceIndex(1, cell[2], cell[3], cell[1])] # 0
          /\ result[EvidenceIndex(1, cell[2], cell[3], cell[1])] # SEFactor
    /\ \E i \in (1..NumLogicalParameters) \ EvidenceIndices : result[i] = SEFactor

-----------------------------------------------------------------------------
(* The output files of Predict (Spec)                                       *)

\* the names of the files a Predict call on `index` writes under the
\* destinations and gamma of the last call
OutputFilesOf(index) ==
    LET outs == PredictOutputs(index, args.shared, args.opts)
    IN  {outs[k][3] : k \in DOMAIN outs} \ {<<"stdout">>}

\* C30 as stated: in a corpus of more than one example, the files Predict
\* writes for one example are none of the files it writes for another example
\* under the same destinations and gamma.
C30_DistinctOutputFiles ==
    (args.command = "PREDICT" /\ status = "returned" /\ call.path = "normal"
        /\ NumExamples > 1)
        => \A other \in Examples \ {args.index} :
              OutputFilesOf(args.index) \cap OutputFilesOf(other) = {}

====
